---- MODULE Spec2Model ----
(***************************************************************************)
(* A model of the tidyDNS client (pkg/tidydns/tidydns.go, current          *)
(* revision: lines 1-866).  A caller invokes one operation of the client;  *)
(* the operation issues its HTTP request(s); the transport answers each    *)
(* request with a transport error or with a response (status code, body);  *)
(* the operation computes its return value from the answers exactly as the *)
(* code does, runs its deferred closeResponse calls and returns.           *)
(***************************************************************************)
EXTENDS Integers, Sequences, FiniteSets, TLC

VARIABLES
    client,   \* the tidyDNSClient that New built: baseURL, username, password
    callers,  \* the callers that use the client in this run
    pc,       \* per caller: "idle", "wait1", "wait2", "done"
    call,     \* per caller: the operation in progress and its arguments
    sent,     \* per caller: the HTTP requests issued by the call, in order
    got,      \* per caller: the outcomes of c.client.Do, in order
    open,     \* per caller: indices into got of response bodies not yet closed
    ret,      \* per caller: the values returned to the caller
    ctx,      \* per caller: the context.Context of the call, "live" or "cancelled"
    server    \* the remote service: the destinations that have an interface,
              \* and the rows of the zone's merged record list

vars == <<client, callers, pc, call, sent, got, open, ret, ctx, server>>

\* longest JSON array a response body carries
MaxLen == 2

Procs == {"c1", "c2"}

(***************************************************************************)
(* JSON values as they arrive on the wire.  "null" also stands for a key   *)
(* that is absent: encoding/json leaves the Go field at its zero value in  *)
(* both cases.                                                             *)
(***************************************************************************)
Null == [t |-> "null", n |-> 0, s |-> ""]
Num(i) == [t |-> "num", n |-> i, s |-> ""]
Str(x) == [t |-> "str", n |-> 0, s |-> x]

\* encoding/json into a Go int: a number is stored, null leaves 0, a string is
\* an UnmarshalTypeError
IntOf(j) ==
    IF j.t = "num" THEN [ok |-> TRUE, v |-> j.n]
    ELSE IF j.t = "null" THEN [ok |-> TRUE, v |-> 0]
    ELSE [ok |-> FALSE, v |-> 0]

\* encoding/json into a Go string: a string is stored, null leaves "", a number
\* is an UnmarshalTypeError
StringOf(j) ==
    IF j.t = "str" THEN [ok |-> TRUE, v |-> j.s]
    ELSE IF j.t = "null" THEN [ok |-> TRUE, v |-> ""]
    ELSE [ok |-> FALSE, v |-> ""]

\* encoding/json into interface{}: every value is accepted
AnyOf(j) == [ok |-> TRUE, v |-> j]

(***************************************************************************)
(* Response bodies.  text is the byte stream as a sequence of tokens (what *)
(* io.ReadAll and strings.Contains see), json is what the JSON decoder     *)
(* finds in it, broken says that reading the stream fails.                 *)
(***************************************************************************)
Garbage == [k |-> "garbage", items |-> <<>>]
JList(items) == [k |-> "list", items |-> items]
JObj(fields) == [k |-> "obj", items |-> <<fields>>]

Body(text, json) == [broken |-> FALSE, text |-> text, json |-> json]
BrokenBody == [broken |-> TRUE, text |-> <<>>, json |-> Garbage]
JsonBody(json) == Body(<<"json">>, json)

\* outcomes of c.client.Do: (nil, err) or (res, nil)
DoError(err) == [kind |-> "err", code |-> 0, body |-> BrokenBody, err |-> err]
TransportError == DoError([msg |-> "transport", status |-> 0])
\* Do on a request whose context is cancelled: the context's error, wrapped
Canceled == DoError([msg |-> "context canceled", status |-> 0])
Response(code, body) ==
    [kind |-> "resp", code |-> code, body |-> body, err |-> [msg |-> "nil", status |-> 0]]

StatusOK == 200
StatusCodes == {200, 201, 409, 500}

\* sequences over S of length 0..n
SeqsUpTo(S, n) == UNION {[1..k -> S] : k \in 0..n}

(***************************************************************************)
(* Errors and results.                                                     *)
(***************************************************************************)
NoError == [msg |-> "nil", status |-> 0]
Err(msg) == [msg |-> msg, status |-> 0]
errorTidyDNS(code) == [msg |-> "error from tidyDNS server", status |-> code]
ErrTransport == Err("transport")
ErrCanceled == Err("context canceled")
ErrDecode == Err("decode")

\* a nil pointer or slice, and a non-nil one
NilRef == [nil |-> TRUE, v |-> <<>>]
Ref(x) == [nil |-> FALSE, v |-> x]

Result(val, err) == [val |-> val, err |-> err]

NoCall == [op |-> "none"]

(***************************************************************************)
(* The client and its requests.                                            *)
(***************************************************************************)
New(baseURL, username, password) ==
    [baseURL |-> baseURL, username |-> username, password |-> password]

Digit(d) == <<"0", "1", "2", "3", "4", "5", "6", "7", "8", "9">>[d + 1]

\* strconv.Itoa, and %d of fmt.Sprintf
RECURSIVE Itoa(_)
Itoa(n) ==
    IF n < 0 THEN "-" \o Itoa(-n)
    ELSE IF n < 10 THEN Digit(n)
    ELSE Itoa(n \div 10) \o Digit(n % 10)

headerContentType == "Content-Type"
mimeForm == "application/x-www-form-urlencoded"

\* url.Values: a set of <<key, values>> pairs, one pair per key
NoForm == {}
Has(form, key) == \E kv \in form : kv[1] = key
Values(form, key) == (CHOOSE kv \in form : kv[1] = key)[2]

\* http.NewRequestWithContext and SetBasicAuth: a request without a body
Get(method, url) ==
    [method |-> method, url |-> url, username |-> client.username,
     password |-> client.password, contentType |-> "", form |-> NoForm]

\* the same with a form body and the Content-Type header
Post(url, data) ==
    [method |-> "POST", url |-> url, username |-> client.username,
     password |-> client.password, contentType |-> mimeForm, form |-> data]

\* the earlier revision, which has no closeResponse: a body stays open
closeResponse_never(openSet, i) == openSet

\* closeResponse: a non-nil response's body is closed
closeResponse(openSet, i) == openSet \ {i}

\* the deferred closeResponse calls of a function run when it returns, last
\* registered first
RECURSIVE RunDeferred(_, _)
RunDeferred(openSet, defers) ==
    IF defers = <<>> THEN openSet
    ELSE RunDeferred(closeResponse(openSet, defers[Len(defers)]),
                     SubSeq(defers, 1, Len(defers) - 1))

\* the body of a response is open from the moment Do returns it
Receive(openSet, i, o) == IF o.kind = "resp" THEN openSet \cup {i} ELSE openSet

\* defer closeResponse(res) is registered only on the paths where Do gave a
\* response
DeferFor(i, o) == IF o.kind = "resp" THEN <<i>> ELSE <<>>

\* Do for a request built without the caller's context (http.NewRequest):
\* cancelling the context does not reach it
Answers_noContext(p, S) == S

\* what Do gives for a request of p that the transport would answer from S:
\* the request carries p's context, and once that is cancelled Do gives the
\* context's error
Answers(p, S) == IF ctx[p] = "cancelled" THEN {Canceled} ELSE S

\* the caller cancels the context of its call, or the context's deadline
\* passes, while a request of the call is in flight
Cancel(p) ==
    /\ pc[p] \in {"wait1", "wait2"}
    /\ ctx[p] = "live"
    /\ ctx' = [ctx EXCEPT ![p] = "cancelled"]
    /\ UNCHANGED <<client, callers, pc, call, sent, got, open, ret, server>>

\* the remote service after it has answered o to the request of call c: a
\* service that keeps destinations unique records the destination of an
\* interface it has created
Serve(s, c, o) ==
    IF /\ s.unique /\ c.op = "CreateDHCPInterface"
       /\ o.kind = "resp" /\ o.code = StatusOK
    THEN [s EXCEPT !.taken = @ \cup {c.createInfo.InterfaceIP}]
    ELSE s

\* the caller invokes an operation, which issues its first request
Invoke(p, c, req) ==
    /\ p \in callers
    /\ pc[p] = "idle"
    /\ pc' = [pc EXCEPT ![p] = "wait1"]
    /\ call' = [call EXCEPT ![p] = c]
    /\ sent' = [sent EXCEPT ![p] = <<req>>]
    /\ UNCHANGED <<client, callers, got, open, ret, ctx, server>>

\* the operation gets the outcome o of its only request and returns r
Return1(p, o, r) ==
    /\ pc' = [pc EXCEPT ![p] = "done"]
    /\ got' = [got EXCEPT ![p] = <<o>>]
    /\ open' = [open EXCEPT ![p] = RunDeferred(Receive({}, 1, o), DeferFor(1, o))]
    /\ ret' = [ret EXCEPT ![p] = r]
    /\ server' = Serve(server, call[p], o)
    /\ UNCHANGED <<client, callers, call, sent, ctx>>

\* the caller takes the returned values; the call's record is dropped
Dismiss(p) ==
    /\ pc[p] = "done"
    /\ pc' = [pc EXCEPT ![p] = "idle"]
    /\ call' = [call EXCEPT ![p] = NoCall]
    /\ sent' = [sent EXCEPT ![p] = <<>>]
    /\ got' = [got EXCEPT ![p] = <<>>]
    /\ open' = [open EXCEPT ![p] = {}]
    /\ ret' = [ret EXCEPT ![p] = Result(0, NoError)]
    /\ ctx' = [ctx EXCEPT ![p] = "live"]
    /\ UNCHANGED <<client, callers, server>>

(***************************************************************************)
(* getData: one GET, status check, JSON decode into the value.             *)
(***************************************************************************)
\* decoded is what json.Decode of the body into the value gives
getData(o, decoded) ==
    IF o.kind = "err" THEN [err |-> o.err, v |-> <<>>]
    ELSE IF o.code # StatusOK THEN [err |-> errorTidyDNS(o.code), v |-> <<>>]
    ELSE IF ~decoded.ok THEN [err |-> ErrDecode, v |-> <<>>]
    ELSE [err |-> NoError, v |-> decoded.v]

\* the index at which a range loop that returns on its first hit stops: the
\* least of the hit indices, 0 when there is none
FirstIndex(hits) ==
    IF hits # {} THEN CHOOSE i \in hits : \A j \in hits : i <= j ELSE 0

(***************************************************************************)
(* Zones.                                                                  *)
(***************************************************************************)
Names == {"a", "ab"}
WireIDs == {Null, Num(1), Num(2)}
WireNames == {Str(n) : n \in Names}

ZoneWire == [id : WireIDs \cup {Str("1")}, name : WireNames \cup {Null}]
ZoneBodies == {JsonBody(JList(l)) : l \in SeqsUpTo(ZoneWire, MaxLen)}
ErrorBodies == {BrokenBody, Body(<<"oops">>, Garbage)}

\* what the transport can answer to a request whose 200 body is drawn from ok:
\* a transport error, a 200 with any such body or with an undecodable one, any
\* other status with an error body or with a body that would decode
Outcomes(ok, sample) ==
    {TransportError}
    \cup {Response(StatusOK, b) : b \in ok \cup ErrorBodies}
    \cup {Response(c, b) : c \in StatusCodes \ {StatusOK}, b \in ErrorBodies \cup sample}

\* json.Decode into []zoneInfo
zoneInfo(body) ==
    IF body.broken \/ body.json.k # "list" THEN [ok |-> FALSE, v |-> <<>>]
    ELSE LET items == body.json.items
         IN IF \E i \in 1..Len(items) :
                   ~IntOf(items[i].id).ok \/ ~StringOf(items[i].name).ok
            THEN [ok |-> FALSE, v |-> <<>>]
            ELSE [ok |-> TRUE,
                  v |-> [i \in 1..Len(items) |->
                            [ID |-> IntOf(items[i].id).v,
                             Name |-> StringOf(items[i].name).v]]]

\* ListZones treating an empty list the way FindZoneID does: as a failure
ListZones_result_notFound(o) ==
    LET d == getData(o, zoneInfo(o.body))
    IN IF d.err # NoError THEN Result(NilRef, d.err)
       ELSE IF Len(d.v) = 0 THEN Result(NilRef, Err("zone not found for"))
       ELSE Result(Ref([i \in 1..Len(d.v) |-> [ID |-> d.v[i].ID, Name |-> d.v[i].Name]]),
                   NoError)

ListZones_result(o) ==
    LET d == getData(o, zoneInfo(o.body))
    IN IF d.err # NoError THEN Result(NilRef, d.err)
       ELSE Result(Ref([i \in 1..Len(d.v) |-> [ID |-> d.v[i].ID, Name |-> d.v[i].Name]]),
                   NoError)

\* FindZoneID trusting the server's filter: the first zone returned
FindZoneID_result_first(name, o) ==
    LET d == getData(o, zoneInfo(o.body))
    IN IF d.err # NoError THEN Result(0, d.err)
       ELSE IF Len(d.v) = 0 THEN Result(0, Err("zone not found for"))
       ELSE Result(d.v[1].ID, NoError)

\* FindZoneID with one message for both failures: no exact match is "zone not
\* found" whether or not the server returned zones
FindZoneID_result_oneMessage(name, o) ==
    LET d == getData(o, zoneInfo(o.body))
        Match(z) == z.Name = name
    IN IF d.err # NoError THEN Result(0, d.err)
       ELSE IF FirstIndex({i \in 1..Len(d.v) : Match(d.v[i])}) # 0
            THEN Result(d.v[FirstIndex({i \in 1..Len(d.v) : Match(d.v[i])})].ID, NoError)
       ELSE Result(0, Err("zone not found for"))

FindZoneID_result(name, o) ==
    LET d == getData(o, zoneInfo(o.body))
        Match(z) == z.Name = name
    IN IF d.err # NoError THEN Result(0, d.err)
       ELSE IF Len(d.v) = 0 THEN Result(0, Err("zone not found for"))
       ELSE IF FirstIndex({i \in 1..Len(d.v) : Match(d.v[i])}) # 0
            THEN Result(d.v[FirstIndex({i \in 1..Len(d.v) : Match(d.v[i])})].ID, NoError)
       ELSE Result(0, Err("unable to match zone name"))

ZoneOutcomes == Outcomes(ZoneBodies, {JsonBody(JList(<<z>>)) : z \in ZoneWire})

ListZones(p) ==
    /\ pc[p] = "idle"
    /\ Invoke(p, [op |-> "ListZones"], Get("GET", client.baseURL \o "/=/zone?type=json"))

ListZones_return(p) ==
    /\ pc[p] = "wait1" /\ call[p].op = "ListZones"
    /\ \E o \in Answers(p, ZoneOutcomes) : Return1(p, o, ListZones_result(o))

FindZoneID(p, name) ==
    /\ pc[p] = "idle"
    /\ Invoke(p, [op |-> "FindZoneID", name |-> name],
           Get("GET", client.baseURL \o "/=/zone?type=json&name=" \o name))

FindZoneID_return(p) ==
    /\ pc[p] = "wait1" /\ call[p].op = "FindZoneID"
    /\ \E o \in Answers(p, ZoneOutcomes) : Return1(p, o, FindZoneID_result(call[p].name, o))

(***************************************************************************)
(* Records.                                                                *)
(***************************************************************************)
RecordTypeA == 0
RecordTypeNS == 4
RecordStatusActive == 0

IPs == {"10.0.0.1", "10.0.0.2"}
ZoneIDs == {7}
RecordIDs == {1, 2}

WireTypes == {Num(RecordTypeA), Num(RecordTypeNS)}
\* id and status of an entry, as the merged list pairs them: a live record has
\* an id and status "0" or 0, a deleted record has an id and no status, a row
\* inherited from the SOA configuration has no id and status -1
WireIDStatus ==
    {<<Num(1), Str("0")>>, <<Num(2), Num(0)>>, <<Num(2), Null>>, <<Null, Num(-1)>>}

\* one entry of a record list as the server sends it
RecordWire ==
    {[id |-> is[1], type |-> t, name |-> n, description |-> Null,
      destination |-> Str(d), ttl |-> Num(0), status |-> is[2],
      location_id |-> Num(1)] :
        is \in WireIDStatus, t \in WireTypes, n \in WireNames, d \in IPs}

RecordListBodies == {JsonBody(JList(l)) : l \in SeqsUpTo(RecordWire, MaxLen)}
RecordListOutcomes ==
    Outcomes(RecordListBodies, {JsonBody(JList(<<r>>)) : r \in RecordWire})

\* the RecordInfo values callers pass in
RecordInfo(type, name, destination) ==
    [ID |-> 0, Type |-> type, Name |-> name, Description |-> "",
     Destination |-> destination, TTL |-> 0, Status |-> RecordStatusActive,
     Location |-> 0]

RecordInputs ==
    {RecordInfo(RecordTypeA, "a", "10.0.0.1"), RecordInfo(RecordTypeNS, "ab", "10.0.0.2")}

\* json.Decode of one element into recordList
recordListEntry(w) ==
    LET ok == /\ IntOf(w.id).ok /\ IntOf(w.type).ok /\ StringOf(w.name).ok
              /\ StringOf(w.description).ok /\ StringOf(w.destination).ok
              /\ IntOf(w.ttl).ok /\ AnyOf(w.status).ok /\ IntOf(w.location_id).ok
    IN [ok |-> ok,
        v |-> [ID |-> IntOf(w.id).v, Type |-> IntOf(w.type).v,
               Name |-> StringOf(w.name).v,
               Description |-> StringOf(w.description).v,
               Destination |-> StringOf(w.destination).v, TTL |-> IntOf(w.ttl).v,
               Status |-> AnyOf(w.status).v, Location |-> IntOf(w.location_id).v]]

\* json.Decode into []recordList
recordList(body) ==
    IF body.broken \/ body.json.k # "list" THEN [ok |-> FALSE, v |-> <<>>]
    ELSE LET items == body.json.items
         IN IF \E i \in 1..Len(items) : ~recordListEntry(items[i]).ok
            THEN [ok |-> FALSE, v |-> <<>>]
            ELSE [ok |-> TRUE,
                  v |-> [i \in 1..Len(items) |-> recordListEntry(items[i]).v]]

\* the list mapping with a copy-paste slip: ID taken from the location field
RecordInfoOfList_location(r) ==
    [ID |-> r.Location, Type |-> r.Type, Name |-> r.Name, Description |-> r.Description,
     Destination |-> r.Destination, TTL |-> r.TTL, Status |-> 0,
     Location |-> r.Location]

\* the list mapping carrying the status over when the wire holds a number
RecordInfoOfList_status(r) ==
    [ID |-> r.ID, Type |-> r.Type, Name |-> r.Name, Description |-> r.Description,
     Destination |-> r.Destination, TTL |-> r.TTL,
     Status |-> IF r.Status.t = "num" THEN r.Status.n ELSE 0,
     Location |-> r.Location]

\* the RecordInfo that FindRecord and ListRecords build from a recordList: the
\* Status field is not set and stays at its zero value
RecordInfoOfList(r) ==
    [ID |-> r.ID, Type |-> r.Type, Name |-> r.Name, Description |-> r.Description,
     Destination |-> r.Destination, TTL |-> r.TTL, Status |-> 0,
     Location |-> r.Location]

recordMergeUrl(zoneID) ==
    client.baseURL \o "/=/record_merged?type=json&zone_id=" \o Itoa(zoneID) \o "&showall=1"

\* ListRecords leaving out the entries the server marks as deleted
ListRecords_result_live(o) ==
    LET d == getData(o, recordList(o.body))
        Live(r) == r.Status # Num(-1)
        live == SelectSeq(d.v, Live)
    IN IF d.err # NoError THEN Result(NilRef, d.err)
       ELSE Result(Ref([i \in 1..Len(live) |-> RecordInfoOfList(live[i])]), NoError)

ListRecords_result(o) ==
    LET d == getData(o, recordList(o.body))
    IN IF d.err # NoError THEN Result(NilRef, d.err)
       ELSE Result(Ref([i \in 1..Len(d.v) |-> RecordInfoOfList(d.v[i])]), NoError)

ListRecords(p, zoneID) ==
    /\ pc[p] = "idle"
    /\ Invoke(p, [op |-> "ListRecords", zoneID |-> zoneID],
           Get("GET", recordMergeUrl(zoneID)))

ListRecords_return(p) ==
    /\ pc[p] = "wait1" /\ call[p].op = "ListRecords"
    /\ \E o \in Answers(p, RecordListOutcomes) : Return1(p, o, ListRecords_result(o))

\* CreateRecord taking 201 Created for success as well
CreateRecord_posted_201(o) ==
    IF o.kind = "err" THEN Result(0, o.err)
    ELSE IF o.code \notin {StatusOK, 201} THEN Result(0, errorTidyDNS(o.code))
    ELSE Result(0, NoError)

\* CreateRecord after its POST: an error result, or none and the GET follows
CreateRecord_posted(o) ==
    IF o.kind = "err" THEN Result(0, o.err)
    ELSE IF o.code # StatusOK THEN Result(0, errorTidyDNS(o.code))
    ELSE Result(0, NoError)

\* CreateRecord matching on type and name only
CreateRecord_result_noDestination(info, o) ==
    LET d == recordList(o.body)
        Match(r) == r.Type = info.Type /\ r.Name = info.Name
    IN IF o.kind = "err" THEN Result(0, o.err)
       ELSE IF o.code # StatusOK THEN Result(0, errorTidyDNS(o.code))
       ELSE IF ~d.ok THEN Result(0, ErrDecode)
       ELSE IF FirstIndex({i \in 1..Len(d.v) : Match(d.v[i])}) # 0
            THEN Result(d.v[FirstIndex({i \in 1..Len(d.v) : Match(d.v[i])})].ID, NoError)
       ELSE Result(0, Err("unable to find new record"))

\* CreateRecord after its GET
CreateRecord_result(info, o) ==
    LET d == recordList(o.body)
        Match(r) == r.Type = info.Type /\ r.Name = info.Name
                    /\ r.Destination = info.Destination
    IN IF o.kind = "err" THEN Result(0, o.err)
       ELSE IF o.code # StatusOK THEN Result(0, errorTidyDNS(o.code))
       ELSE IF ~d.ok THEN Result(0, ErrDecode)
       ELSE IF FirstIndex({i \in 1..Len(d.v) : Match(d.v[i])}) # 0
            THEN Result(d.v[FirstIndex({i \in 1..Len(d.v) : Match(d.v[i])})].ID, NoError)
       ELSE Result(0, Err("unable to find new record"))

\* what the server answers to a form POST or a DELETE, of which only the status
\* is read: the status object with 200 or another status, or an error page
PlainBodies == {JsonBody(JObj([status |-> Str("0")]))}
PlainOutcomes ==
    {TransportError}
    \cup {Response(c, b) : c \in StatusCodes, b \in PlainBodies}
    \cup {Response(c, Body(<<"oops">>, Garbage)) : c \in StatusCodes \ {StatusOK}}

\* most records the zone comes to hold: CreateRecord is not called once the
\* zone's rows and the create POSTs in flight are that many
MaxRecords == 2

\* the remote service after it has answered 200 to the create POST of p's call
\* c: a service that stores records has a new row in the zone's merged list,
\* live, under the next free id, with the type, name and destination of the
\* form; by notes whose POST created the row and is not on the wire
Store(s, p, c) ==
    IF ~s.stores THEN s
    ELSE [s EXCEPT !.rows = Append(@,
            [by |-> p,
             wire |-> [id |-> Num(Len(s.rows) + 1), type |-> Num(c.info.Type),
                       name |-> Str(c.info.Name), description |-> Null,
                       destination |-> Str(c.info.Destination), ttl |-> Num(0),
                       status |-> Str("0"), location_id |-> Num(1)]])]

\* the answers of S that a service that stores records gives to the GET of the
\* merged list with showall=1: a failure, or 200 with all the rows of the zone,
\* deleted ones included, in an order of the service's choosing
ServedRecords(s, S) ==
    IF ~s.stores THEN S
    ELSE (Outcomes({}, {}) \cap S)
         \cup {Response(StatusOK,
                        JsonBody(JList([i \in 1..Len(s.rows) |-> s.rows[f[i]].wire]))) :
                 f \in Permutations(1..Len(s.rows))}

CreateRecord(p, zoneID, info) ==
    /\ pc[p] = "idle"
    /\ Invoke(p, [op |-> "CreateRecord", zoneID |-> zoneID, info |-> info],
           Post(client.baseURL \o "/=/record/new/" \o Itoa(zoneID),
                {<<"type", <<Itoa(info.Type)>>>>, <<"name", <<info.Name>>>>,
                 <<"ttl", <<Itoa(info.TTL)>>>>,
                 <<"description", <<info.Description>>>>,
                 <<"status", <<Itoa(info.Status)>>>>,
                 <<"destination", <<info.Destination>>>>,
                 <<"location_id", <<Itoa(info.Location)>>>>}))

\* the POST is answered: CreateRecord returns the error, or defers the close of
\* the POST response and issues the GET
CreateRecord_post(p) ==
    /\ pc[p] = "wait1" /\ call[p].op = "CreateRecord"
    /\ \E o \in Answers(p, PlainOutcomes) :
          IF CreateRecord_posted(o).err # NoError
          THEN Return1(p, o, CreateRecord_posted(o))
          ELSE /\ pc' = [pc EXCEPT ![p] = "wait2"]
               /\ got' = [got EXCEPT ![p] = <<o>>]
               /\ open' = [open EXCEPT ![p] = Receive({}, 1, o)]
               /\ sent' = [sent EXCEPT ![p] = Append(@,
                     Get("GET", recordMergeUrl(call[p].zoneID)))]
               /\ server' = Store(server, p, call[p])
               /\ UNCHANGED <<client, callers, call, ret, ctx>>

\* CreateRecord undoing its POST when the GET gives no id: a DELETE for the
\* record is issued and the service drops the newest row of the caller
CreateRecord_return_rollback(p) ==
    /\ pc[p] = "wait2" /\ call[p].op = "CreateRecord"
    /\ \E o \in Answers(p, ServedRecords(server, RecordListOutcomes)) :
          LET r == CreateRecord_result(call[p].info, o)
              mine == {i \in 1..Len(server.rows) : server.rows[i].by = p}
              last == CHOOSE i \in mine : \A j \in mine : j <= i
          IN /\ pc' = [pc EXCEPT ![p] = "done"]
             /\ got' = [got EXCEPT ![p] = Append(@, o)]
             /\ open' = [open EXCEPT ![p] =
                   RunDeferred(Receive(@, 2, o), DeferFor(1, got[p][1]) \o DeferFor(2, o))]
             /\ ret' = [ret EXCEPT ![p] = r]
             /\ IF r.err # NoError /\ mine # {}
                THEN /\ sent' = [sent EXCEPT ![p] = Append(@,
                           Get("DELETE", client.baseURL \o "/=/record/"))]
                     /\ server' = [server EXCEPT !.rows =
                           SubSeq(@, 1, last - 1) \o SubSeq(@, last + 1, Len(@))]
                ELSE UNCHANGED <<sent, server>>
             /\ UNCHANGED <<client, callers, call, ctx>>

\* the GET is answered: CreateRecord returns, and both deferred closes run
CreateRecord_return(p) ==
    /\ pc[p] = "wait2" /\ call[p].op = "CreateRecord"
    /\ \E o \in Answers(p, ServedRecords(server, RecordListOutcomes)) :
          /\ pc' = [pc EXCEPT ![p] = "done"]
          /\ got' = [got EXCEPT ![p] = Append(@, o)]
          /\ open' = [open EXCEPT ![p] =
                RunDeferred(Receive(@, 2, o), DeferFor(1, got[p][1]) \o DeferFor(2, o))]
          /\ ret' = [ret EXCEPT ![p] = CreateRecord_result(call[p].info, o)]
          /\ UNCHANGED <<client, callers, call, sent, ctx, server>>

UpdateRecord_result(o) ==
    IF o.kind = "err" THEN Result(NilRef, o.err)
    ELSE IF o.code # StatusOK THEN Result(NilRef, errorTidyDNS(o.code))
    ELSE Result(NilRef, NoError)

UpdateRecord(p, zoneID, recordID, info) ==
    /\ pc[p] = "idle"
    /\ Invoke(p, [op |-> "UpdateRecord", zoneID |-> zoneID, recordID |-> recordID,
               info |-> info],
           Post(client.baseURL \o "/=/record/" \o Itoa(recordID) \o "/" \o Itoa(zoneID),
                {<<"ttl", <<Itoa(info.TTL)>>>>,
                 <<"description", <<info.Description>>>>,
                 <<"status", <<Itoa(info.Status)>>>>,
                 <<"destination", <<info.Destination>>>>,
                 <<"location_id", <<Itoa(info.Location)>>>>}))

UpdateRecord_return(p) ==
    /\ pc[p] = "wait1" /\ call[p].op = "UpdateRecord"
    /\ \E o \in Answers(p, PlainOutcomes) : Return1(p, o, UpdateRecord_result(o))

\* DeleteRecord taking every status below 300 for success
DeleteRecord_result_2xx(o) ==
    IF o.kind = "err" THEN Result(NilRef, o.err)
    ELSE IF o.code >= 300 THEN Result(NilRef, errorTidyDNS(o.code))
    ELSE Result(NilRef, NoError)

DeleteRecord_result(o) ==
    IF o.kind = "err" THEN Result(NilRef, o.err)
    ELSE IF o.code # StatusOK THEN Result(NilRef, errorTidyDNS(o.code))
    ELSE Result(NilRef, NoError)

DeleteRecord(p, zoneID, recordID) ==
    /\ pc[p] = "idle"
    /\ Invoke(p, [op |-> "DeleteRecord", zoneID |-> zoneID, recordID |-> recordID],
           Get("DELETE",
               client.baseURL \o "/=/record/" \o Itoa(recordID) \o "/" \o Itoa(zoneID)))

DeleteRecord_return(p) ==
    /\ pc[p] = "wait1" /\ call[p].op = "DeleteRecord"
    /\ \E o \in Answers(p, PlainOutcomes) : Return1(p, o, DeleteRecord_result(o))

\* FindRecord as in the earlier revision: the type is compared, the name is
\* left to the server's filter
FindRecord_result_typeOnly(name, rType, o) ==
    LET d == getData(o, recordList(o.body))
        Match(r) == r.Type = rType
        found == SelectSeq(d.v, Match)
    IN IF d.err # NoError THEN Result(NilRef, d.err)
       ELSE Result(Ref([i \in 1..Len(found) |-> RecordInfoOfList(found[i])]), NoError)

FindRecord_result(name, rType, o) ==
    LET d == getData(o, recordList(o.body))
        Match(r) == r.Type = rType /\ r.Name = name
        found == SelectSeq(d.v, Match)
    IN IF d.err # NoError THEN Result(NilRef, d.err)
       ELSE Result(Ref([i \in 1..Len(found) |-> RecordInfoOfList(found[i])]), NoError)

FindRecord(p, zoneID, name, rType) ==
    /\ pc[p] = "idle"
    /\ Invoke(p, [op |-> "FindRecord", zoneID |-> zoneID, name |-> name, rType |-> rType],
           Get("GET", client.baseURL \o "/=/record?type=json&zone=" \o Itoa(zoneID)
                      \o "&name=" \o name))

FindRecord_return(p) ==
    /\ pc[p] = "wait1" /\ call[p].op = "FindRecord"
    /\ \E o \in Answers(p, RecordListOutcomes) :
          Return1(p, o, FindRecord_result(call[p].name, call[p].rType, o))

\* json.Decode into recordRead: status is a typed integer here
recordRead(body) ==
    IF body.broken \/ body.json.k # "obj" THEN [ok |-> FALSE, v |-> <<>>]
    ELSE LET w == body.json.items[1]
         IN [ok |-> recordListEntry(w).ok /\ IntOf(w.status).ok,
             v |-> [recordListEntry(w).v EXCEPT !.Status = IntOf(w.status).v]]

ReadRecord_result(o) ==
    LET d == getData(o, recordRead(o.body))
    IN IF d.err # NoError THEN Result(NilRef, d.err)
       ELSE Result(Ref([ID |-> d.v.ID, Type |-> d.v.Type, Name |-> d.v.Name,
                        Description |-> d.v.Description,
                        Destination |-> d.v.Destination, TTL |-> d.v.TTL,
                        Status |-> d.v.Status, Location |-> d.v.Location]),
                   NoError)

RecordReadBodies == {JsonBody(JObj(r)) : r \in RecordWire}
RecordReadOutcomes == Outcomes(RecordReadBodies, RecordReadBodies)

\* the URL ReadRecord asks for: the zone id, then the record id
recordLookupUrl(zoneID, recordID) ==
    client.baseURL \o "/=/record/" \o Itoa(zoneID) \o "/" \o Itoa(recordID)

ReadRecord(p, zoneID, recordID) ==
    /\ pc[p] = "idle"
    /\ Invoke(p, [op |-> "ReadRecord", zoneID |-> zoneID, recordID |-> recordID],
           Get("GET", recordLookupUrl(zoneID, recordID)))

\* ReadRecord with a cache in the client: a record that another caller has
\* read is returned as that caller got it
ReadRecord_return_cached(p) ==
    /\ pc[p] = "wait1" /\ call[p].op = "ReadRecord"
    /\ \E o \in Answers(p, RecordReadOutcomes) :
          IF \E q \in Procs \ {p} :
                /\ pc[q] = "done" /\ call[q] = call[p] /\ ret[q].err = NoError
          THEN \E q \in Procs \ {p} :
                  /\ pc[q] = "done" /\ call[q] = call[p] /\ ret[q].err = NoError
                  /\ Return1(p, o, ret[q])
          ELSE Return1(p, o, ReadRecord_result(o))

ReadRecord_return(p) ==
    /\ pc[p] = "wait1" /\ call[p].op = "ReadRecord"
    /\ \E o \in Answers(p, RecordReadOutcomes) : Return1(p, o, ReadRecord_result(o))

(***************************************************************************)
(* DHCP subnets and interfaces.                                            *)
(***************************************************************************)
CIDRs == {"10.0.0.0/24"}
SubnetIDs == {5}
InterfaceIDs == {3}

SubnetWire ==
    [id : WireIDs, vlan_id : {Num(9)}, vlan_no : {Num(534), Null},
     zone_id : {Num(7)}, location_id : {Num(1)}]
SubnetBodies == {JsonBody(JList(l)) : l \in SeqsUpTo(SubnetWire, MaxLen)}
SubnetOutcomes == Outcomes(SubnetBodies, {JsonBody(JList(<<w>>)) : w \in SubnetWire})

\* json.Decode into []dhcpSubnet
dhcpSubnet(body) ==
    IF body.broken \/ body.json.k # "list" THEN [ok |-> FALSE, v |-> <<>>]
    ELSE LET items == body.json.items
             Bad(w) == \/ ~IntOf(w.id).ok \/ ~IntOf(w.vlan_id).ok
                       \/ ~IntOf(w.vlan_no).ok \/ ~IntOf(w.zone_id).ok
                       \/ ~IntOf(w.location_id).ok
         IN IF \E i \in 1..Len(items) : Bad(items[i])
            THEN [ok |-> FALSE, v |-> <<>>]
            ELSE [ok |-> TRUE,
                  v |-> [i \in 1..Len(items) |->
                            [ID |-> IntOf(items[i].id).v,
                             VlanId |-> IntOf(items[i].vlan_id).v,
                             VlanNo |-> IntOf(items[i].vlan_no).v,
                             ZoneID |-> IntOf(items[i].zone_id).v,
                             LocationID |-> IntOf(items[i].location_id).v]]]

\* GetSubnetIDs picking the first of several subnets
GetSubnetIDs_result_first(o) ==
    LET d == IF o.kind = "resp" THEN dhcpSubnet(o.body) ELSE [ok |-> FALSE, v |-> <<>>]
    IN IF o.kind = "err" THEN Result(NilRef, o.err)
       ELSE IF o.code # StatusOK THEN Result(NilRef, errorTidyDNS(o.code))
       ELSE IF ~d.ok THEN Result(NilRef, ErrDecode)
       ELSE IF Len(d.v) = 0 THEN Result(NilRef, Err("subnet not found"))
       ELSE Result(Ref([SubnetID |-> d.v[1].ID, ZoneID |-> d.v[1].ZoneID,
                        VlanNo |-> d.v[1].VlanNo]),
                   NoError)

GetSubnetIDs_result(o) ==
    LET d == IF o.kind = "resp" THEN dhcpSubnet(o.body) ELSE [ok |-> FALSE, v |-> <<>>]
    IN IF o.kind = "err" THEN Result(NilRef, o.err)
       ELSE IF o.code # StatusOK THEN Result(NilRef, errorTidyDNS(o.code))
       ELSE IF ~d.ok THEN Result(NilRef, ErrDecode)
       ELSE IF Len(d.v) = 0 THEN Result(NilRef, Err("subnet not found"))
       ELSE IF Len(d.v) > 1 THEN Result(NilRef, Err("too many subnets found"))
       ELSE Result(Ref([SubnetID |-> d.v[1].ID, ZoneID |-> d.v[1].ZoneID,
                        VlanNo |-> d.v[1].VlanNo]),
                   NoError)

GetSubnetIDs(p, subnetCIDR) ==
    /\ pc[p] = "idle"
    /\ Invoke(p, [op |-> "GetSubnetIDs", subnetCIDR |-> subnetCIDR],
           Get("GET", client.baseURL \o "/=/dhcp_subnet?subnet=" \o subnetCIDR))

GetSubnetIDs_return(p) ==
    /\ pc[p] = "wait1" /\ call[p].op = "GetSubnetIDs"
    /\ \E o \in Answers(p, SubnetOutcomes) : Return1(p, o, GetSubnetIDs_result(o))

FreeIPWire ==
    [status : {Num(0), Str("0")}, ip_address : {Str(i) : i \in IPs} \cup {Null}]
FreeIPBodies == {JsonBody(JObj(w)) : w \in FreeIPWire}
FreeIPOutcomes == Outcomes(FreeIPBodies, FreeIPBodies)

\* json.Decode into dhcpFreeIP: status is a typed integer
dhcpFreeIP(body) ==
    IF body.broken \/ body.json.k # "obj" THEN [ok |-> FALSE, v |-> <<>>]
    ELSE LET w == body.json.items[1]
         IN [ok |-> IntOf(w.status).ok /\ StringOf(w.ip_address).ok,
             v |-> [Status |-> IntOf(w.status).v,
                    IPAddress |-> StringOf(w.ip_address).v]]

\* the answers of S that a service with unique destinations gives to the free-IP
\* request: an address that has no interface, as a suggestion only, or an error
\* status when every address has one; any answer of S from another service
ServedFreeIP(s, S) ==
    IF ~s.unique THEN S
    ELSE IF IPs \ s.taken # {}
         THEN {o \in S : /\ o.kind = "resp" /\ o.code = StatusOK
                         /\ dhcpFreeIP(o.body).ok
                         /\ dhcpFreeIP(o.body).v.IPAddress \in IPs \ s.taken}
    ELSE {o \in S : o.kind = "resp" /\ o.code # StatusOK}

GetFreeIP_result(o) ==
    LET d == IF o.kind = "resp" THEN dhcpFreeIP(o.body) ELSE [ok |-> FALSE, v |-> <<>>]
    IN IF o.kind = "err" THEN Result("", o.err)
       ELSE IF o.code # StatusOK THEN Result("", errorTidyDNS(o.code))
       ELSE IF ~d.ok THEN Result("", ErrDecode)
       ELSE Result(d.v.IPAddress, NoError)

GetFreeIP(p, subnetID) ==
    /\ pc[p] = "idle"
    /\ Invoke(p, [op |-> "GetFreeIP", subnetID |-> subnetID],
           Get("GET", client.baseURL \o "/=/dhcp_subnet_free_ip/" \o Itoa(subnetID)))

\* GetFreeIP with a response buffer kept in the shared client: the address is
\* decoded from the answer another caller got last, when there is one
GetFreeIP_return_shared(p) ==
    /\ pc[p] = "wait1" /\ call[p].op = "GetFreeIP"
    /\ \E o \in Answers(p, ServedFreeIP(server, FreeIPOutcomes)) :
          IF \E q \in Procs \ {p} : pc[q] = "done" /\ call[q].op = "GetFreeIP"
          THEN \E q \in Procs \ {p} :
                  /\ pc[q] = "done" /\ call[q].op = "GetFreeIP"
                  /\ Return1(p, o, GetFreeIP_result(got[q][1]))
          ELSE Return1(p, o, GetFreeIP_result(o))

GetFreeIP_return(p) ==
    /\ pc[p] = "wait1" /\ call[p].op = "GetFreeIP"
    /\ \E o \in Answers(p, ServedFreeIP(server, FreeIPOutcomes)) : Return1(p, o, GetFreeIP_result(o))

\* strings.Contains on token sequences
Contains(text, sub) ==
    \E i \in 1..(Len(text) - Len(sub) + 1) : SubSeq(text, i, i + Len(sub) - 1) = sub

\* fmt.Sprintf("Key (destination)=(%s) already exists", ip)
DestinationExists(ip) == <<"Key (destination)=(", ip, ") already exists">>
\* fmt.Sprintf("Key (username)=(%s) already exists", username)
UsernameExists(username) == <<"Key (username)=(", username, ") already exists">>

Usernames == {"ann", "bob"}

\* the bodies of the server's error pages
MessageBodies ==
    {Body(<<"oops">>, Garbage)}
    \cup {Body(<<"ERROR: duplicate key.">> \o DestinationExists(i) \o <<".">>, Garbage) :
            i \in IPs}
    \cup {Body(<<"ERROR: duplicate key.">> \o UsernameExists(u) \o <<".">>, Garbage) :
            u \in Usernames}

InterfaceCreateWire ==
    [status : {Str("0"), Num(0)}, id : WireIDs \cup {Str("1")}, subnet_id : {Num(5)}]
\* the usual answers, and one whose status field quotes the duplicate-key message
InterfaceCreateBodies ==
    {JsonBody(JObj(w)) : w \in InterfaceCreateWire}
    \cup {Body(<<"{status:">> \o DestinationExists(i) \o <<"}">>,
               JObj([status |-> Str("duplicate"), id |-> Num(2), subnet_id |-> Num(5)])) :
            i \in IPs}
InterfaceCreateOutcomes ==
    {TransportError}
    \cup {Response(c, b) : c \in StatusCodes,
                           b \in InterfaceCreateBodies \cup MessageBodies \cup {BrokenBody}}

\* json.Decode into an interfaceCreate whose Status were declared int: a
\* string status is an UnmarshalTypeError
interfaceCreate_intStatus(body) ==
    IF body.broken \/ body.json.k # "obj" THEN [ok |-> FALSE, v |-> <<>>]
    ELSE LET w == body.json.items[1]
         IN [ok |-> IntOf(w.status).ok /\ IntOf(w.id).ok /\ IntOf(w.subnet_id).ok,
             v |-> [Status |-> IntOf(w.status).v, ID |-> IntOf(w.id).v,
                    SubnetID |-> IntOf(w.subnet_id).v]]

\* json.Decode into interfaceCreate: status is an interface{}
interfaceCreate(body) ==
    IF body.broken \/ body.json.k # "obj" THEN [ok |-> FALSE, v |-> <<>>]
    ELSE LET w == body.json.items[1]
         IN [ok |-> AnyOf(w.status).ok /\ IntOf(w.id).ok /\ IntOf(w.subnet_id).ok,
             v |-> [Status |-> AnyOf(w.status).v, ID |-> IntOf(w.id).v,
                    SubnetID |-> IntOf(w.subnet_id).v]]

\* the answers of S that a service with unique destinations gives to the create
\* request for ip: the new interface with its id under 200, or, when ip has an
\* interface already, an error status with the duplicate-key message for ip
ServedCreate(s, ip, S) ==
    IF ~s.unique THEN S
    ELSE IF ip \in s.taken
         THEN {o \in S : /\ o.kind = "resp" /\ o.code # StatusOK /\ ~o.body.broken
                         /\ Contains(o.body.text, DestinationExists(ip))}
    ELSE {o \in S : /\ o.kind = "resp" /\ o.code = StatusOK
                    /\ o.body \in {JsonBody(JObj(w)) : w \in InterfaceCreateWire}
                    /\ o.body.json.items[1].id.t = "num"}

CreateInfo(ip) ==
    [SubnetID |-> 5, ZoneID |-> 7, InterfaceIP |-> ip, InterfaceName |-> "a",
     LocationID |-> 1]

\* CreateDHCPInterface without the search of the body: every status other than
\* 200 is the status error
CreateDHCPInterface_result_noCheck(createInfo, o) ==
    LET d == IF o.kind = "resp" THEN interfaceCreate(o.body)
             ELSE [ok |-> FALSE, v |-> <<>>]
    IN IF o.kind = "err" THEN Result(0, o.err)
       ELSE IF o.code # StatusOK THEN Result(0, errorTidyDNS(o.code))
       ELSE IF ~d.ok THEN Result(0, ErrDecode)
       ELSE Result(d.v.ID, NoError)

\* CreateDHCPInterface looking for the duplicate key only under 409 Conflict
CreateDHCPInterface_result_409(createInfo, o) ==
    LET checkstring == DestinationExists(createInfo.InterfaceIP)
        d == IF o.kind = "resp" THEN interfaceCreate(o.body) ELSE [ok |-> FALSE, v |-> <<>>]
    IN IF o.kind = "err" THEN Result(0, o.err)
       ELSE IF o.code # StatusOK
            THEN IF o.body.broken THEN Result(0, Err("read"))
                 ELSE IF o.code = 409 /\ Contains(o.body.text, checkstring)
                      THEN Result(1, Err("try again"))
                 ELSE Result(0, errorTidyDNS(o.code))
       ELSE IF ~d.ok THEN Result(0, ErrDecode)
       ELSE Result(d.v.ID, NoError)

\* CreateDHCPInterface of the earlier revision, res, _ := c.client.Do(req): the
\* error of Do is dropped and res.StatusCode is read from the nil response
CreateDHCPInterface_result_ignoreError(createInfo, o) ==
    LET checkstring == DestinationExists(createInfo.InterfaceIP)
        d == IF o.kind = "resp" THEN interfaceCreate(o.body) ELSE [ok |-> FALSE, v |-> <<>>]
    IN IF o.kind = "err" THEN Result(0, Err("nil pointer dereference"))
       ELSE IF o.code # StatusOK
            THEN IF o.body.broken THEN Result(0, Err("read"))
                 ELSE IF Contains(o.body.text, checkstring)
                      THEN Result(1, Err("try again"))
                 ELSE Result(0, errorTidyDNS(o.code))
       ELSE IF ~d.ok THEN Result(0, ErrDecode)
       ELSE Result(d.v.ID, NoError)

\* CreateDHCPInterface reporting the conflict the way it reports every other
\* failure: with 0
CreateDHCPInterface_result_zeroOnConflict(createInfo, o) ==
    LET checkstring == DestinationExists(createInfo.InterfaceIP)
        d == IF o.kind = "resp" THEN interfaceCreate(o.body) ELSE [ok |-> FALSE, v |-> <<>>]
    IN IF o.kind = "err" THEN Result(0, o.err)
       ELSE IF o.code # StatusOK
            THEN IF o.body.broken THEN Result(0, Err("read"))
                 ELSE IF Contains(o.body.text, checkstring)
                      THEN Result(0, Err("try again"))
                 ELSE Result(0, errorTidyDNS(o.code))
       ELSE IF ~d.ok THEN Result(0, ErrDecode)
       ELSE Result(d.v.ID, NoError)

\* CreateDHCPInterface looking for the duplicate-key message of any destination,
\* not of the submitted one
CreateDHCPInterface_result_anyIP(createInfo, o) ==
    LET d == IF o.kind = "resp" THEN interfaceCreate(o.body) ELSE [ok |-> FALSE, v |-> <<>>]
    IN IF o.kind = "err" THEN Result(0, o.err)
       ELSE IF o.code # StatusOK
            THEN IF o.body.broken THEN Result(0, Err("read"))
                 ELSE IF \E i \in IPs : Contains(o.body.text, DestinationExists(i))
                      THEN Result(1, Err("try again"))
                 ELSE Result(0, errorTidyDNS(o.code))
       ELSE IF ~d.ok THEN Result(0, ErrDecode)
       ELSE Result(d.v.ID, NoError)

CreateDHCPInterface_result(createInfo, o) ==
    LET checkstring == DestinationExists(createInfo.InterfaceIP)
        d == IF o.kind = "resp" THEN interfaceCreate(o.body) ELSE [ok |-> FALSE, v |-> <<>>]
    IN IF o.kind = "err" THEN Result(0, o.err)
       ELSE IF o.code # StatusOK
            THEN IF o.body.broken THEN Result(0, Err("read"))
                 ELSE IF Contains(o.body.text, checkstring)
                      THEN Result(1, Err("try again"))
                 ELSE Result(0, errorTidyDNS(o.code))
       ELSE IF ~d.ok THEN Result(0, ErrDecode)
       ELSE Result(d.v.ID, NoError)

CreateDHCPInterface(p, createInfo) ==
    /\ pc[p] = "idle"
    /\ Invoke(p, [op |-> "CreateDHCPInterface", createInfo |-> createInfo],
           Post(client.baseURL \o "/=/dhcp_interface//new",
                {<<"subnet_id", <<Itoa(createInfo.SubnetID)>>>>,
                 <<"zone_id", <<Itoa(createInfo.ZoneID)>>>>,
                 <<"name", <<createInfo.InterfaceName>>>>,
                 <<"destination", <<createInfo.InterfaceIP>>>>,
                 <<"location_id", <<Itoa(createInfo.LocationID)>>>>}))

\* CreateDHCPInterface sending its POST again when it meets the conflict
CreateDHCPInterface_return_retry(p) ==
    /\ pc[p] = "wait1" /\ call[p].op = "CreateDHCPInterface"
    /\ \E o \in Answers(p, InterfaceCreateOutcomes) :
          IF CreateDHCPInterface_result(call[p].createInfo, o).err = Err("try again")
          THEN /\ sent' = [sent EXCEPT ![p] = Append(@, @[1])]
               /\ UNCHANGED <<client, callers, pc, call, got, open, ret, ctx, server>>
          ELSE Return1(p, o, CreateDHCPInterface_result(call[p].createInfo, o))

CreateDHCPInterface_return(p) ==
    /\ pc[p] = "wait1" /\ call[p].op = "CreateDHCPInterface"
    /\ \E o \in Answers(p, ServedCreate(server, call[p].createInfo.InterfaceIP,
                                         InterfaceCreateOutcomes)) :
          Return1(p, o, CreateDHCPInterface_result(call[p].createInfo, o))

InterfaceReadWire == [name : WireNames \cup {Null}, destination : {Str(i) : i \in IPs} \cup {Num(1)}]
InterfaceReadBodies == {JsonBody(JObj(w)) : w \in InterfaceReadWire}
InterfaceReadOutcomes == Outcomes(InterfaceReadBodies, InterfaceReadBodies)

\* json.Decode into interfaceRead
interfaceRead(body) ==
    IF body.broken \/ body.json.k # "obj" THEN [ok |-> FALSE, v |-> <<>>]
    ELSE LET w == body.json.items[1]
         IN [ok |-> StringOf(w.name).ok /\ StringOf(w.destination).ok,
             v |-> [Name |-> StringOf(w.name).v,
                    Destination |-> StringOf(w.destination).v]]

ReadDHCPInterface_result(o) ==
    LET d == IF o.kind = "resp" THEN interfaceRead(o.body) ELSE [ok |-> FALSE, v |-> <<>>]
    IN IF o.kind = "err" THEN Result(NilRef, o.err)
       ELSE IF o.code # StatusOK THEN Result(NilRef, errorTidyDNS(o.code))
       ELSE IF ~d.ok THEN Result(NilRef, ErrDecode)
       ELSE Result(Ref([InterfaceIP |-> d.v.Destination, Interfacename |-> d.v.Name]),
                   NoError)

ReadDHCPInterface(p, interfaceID) ==
    /\ pc[p] = "idle"
    /\ Invoke(p, [op |-> "ReadDHCPInterface", interfaceID |-> interfaceID],
           Get("GET", client.baseURL \o "/=/dhcp_interface/?id=" \o Itoa(interfaceID)))

ReadDHCPInterface_return(p) ==
    /\ pc[p] = "wait1" /\ call[p].op = "ReadDHCPInterface"
    /\ \E o \in Answers(p, InterfaceReadOutcomes) : Return1(p, o, ReadDHCPInterface_result(o))

UpdateDHCPInterfaceName_result(o) ==
    LET d == IF o.kind = "resp" THEN interfaceCreate(o.body) ELSE [ok |-> FALSE, v |-> <<>>]
    IN IF o.kind = "err" THEN Result(0, o.err)
       ELSE IF o.code # StatusOK THEN Result(0, errorTidyDNS(o.code))
       ELSE IF ~d.ok THEN Result(0, ErrDecode)
       ELSE Result(d.v.ID, NoError)

UpdateDHCPInterfaceName(p, interfaceID, interfaceName) ==
    /\ pc[p] = "idle"
    /\ Invoke(p, [op |-> "UpdateDHCPInterfaceName", interfaceID |-> interfaceID,
               interfaceName |-> interfaceName],
           Post(client.baseURL \o "/=/dhcp_interface//" \o Itoa(interfaceID),
                {<<"name", <<interfaceName>>>>}))

UpdateDHCPInterfaceName_return(p) ==
    /\ pc[p] = "wait1" /\ call[p].op = "UpdateDHCPInterfaceName"
    /\ \E o \in Answers(p, InterfaceCreateOutcomes) :
          Return1(p, o, UpdateDHCPInterfaceName_result(o))

DeleteDHCPInterface_result(o) ==
    IF o.kind = "err" THEN Result(NilRef, o.err)
    ELSE IF o.code # StatusOK THEN Result(NilRef, errorTidyDNS(o.code))
    ELSE Result(NilRef, NoError)

DeleteDHCPInterface(p, interfaceID) ==
    /\ pc[p] = "idle"
    /\ Invoke(p, [op |-> "DeleteDHCPInterface", interfaceID |-> interfaceID],
           Get("DELETE", client.baseURL \o "/=/dhcp_interface/" \o Itoa(interfaceID)))

DeleteDHCPInterface_return(p) ==
    /\ pc[p] = "wait1" /\ call[p].op = "DeleteDHCPInterface"
    /\ \E o \in Answers(p, PlainOutcomes) : Return1(p, o, DeleteDHCPInterface_result(o))

(***************************************************************************)
(* Internal users.                                                         *)
(***************************************************************************)
AuthGroupSuperAdmin == 1
AuthGroupUser == 2
UserIDs == {144}
UserAllowIDs == {1, 2}

\* the userAllow slices callers pass: nil, empty, or some ids
UserAllows == {NilRef} \cup {Ref(l) : l \in SeqsUpTo(UserAllowIDs, MaxLen)}

\* the user_allow form values without the empty-sequence case: no value at all
\* for no id, which url.Values encodes as no field
userAllowFormatted_plain(userAllow) ==
    [i \in 1..Len(userAllow) |-> Itoa(userAllow[i])]

\* the user_allow form values: one per id, or one empty string
userAllowFormatted(userAllow) ==
    IF Len(userAllow) > 0
    THEN [i \in 1..Len(userAllow) |-> Itoa(userAllow[i])]
    ELSE <<"">>

UserCreateWire == [id : WireIDs \cup {Str("1")}, status : {Str("0"), Num(0)}]
UserCreateBodies == {JsonBody(JObj(w)) : w \in UserCreateWire}
UserCreateOutcomes ==
    {TransportError}
    \cup {Response(c, b) : c \in StatusCodes,
                           b \in UserCreateBodies \cup MessageBodies \cup {BrokenBody}}

\* json.Decode into userCreate: data.id is an integer, status a typed string
userCreate(body) ==
    IF body.broken \/ body.json.k # "obj" THEN [ok |-> FALSE, v |-> <<>>]
    ELSE LET w == body.json.items[1]
         IN [ok |-> IntOf(w.id).ok /\ StringOf(w.status).ok,
             v |-> [Id |-> IntOf(w.id).v, Status |-> StringOf(w.status).v]]

\* CreateInternalUser taking any duplicate-username message for its own
CreateInternalUser_result_anyUser(username, o) ==
    LET d == IF o.kind = "resp" THEN userCreate(o.body) ELSE [ok |-> FALSE, v |-> <<>>]
    IN IF o.kind = "err" THEN Result(0, o.err)
       ELSE IF o.code # StatusOK
            THEN IF o.body.broken THEN Result(0, Err("read"))
                 ELSE IF Contains(o.body.text, <<"Key (username)=(">>)
                      THEN Result(0, Err("username already exists"))
                 ELSE Result(0, errorTidyDNS(o.code))
       ELSE IF ~d.ok THEN Result(0, ErrDecode)
       ELSE Result(d.v.Id, NoError)

CreateInternalUser_result(username, o) ==
    LET d == IF o.kind = "resp" THEN userCreate(o.body) ELSE [ok |-> FALSE, v |-> <<>>]
    IN IF o.kind = "err" THEN Result(0, o.err)
       ELSE IF o.code # StatusOK
            THEN IF o.body.broken THEN Result(0, Err("read"))
                 ELSE IF Contains(o.body.text, UsernameExists(username))
                      THEN Result(0, Err("username already exists"))
                 ELSE Result(0, errorTidyDNS(o.code))
       ELSE IF ~d.ok THEN Result(0, ErrDecode)
       ELSE Result(d.v.Id, NoError)

CreateInternalUser(p, username, password, description, changePasswordOnFirstLogin, authGroup, userAllow) ==
    /\ pc[p] = "idle"
    /\ Invoke(p, [op |-> "CreateInternalUser", username |-> username,
               password |-> password, description |-> description,
               changePasswordOnFirstLogin |-> changePasswordOnFirstLogin,
               authGroup |-> authGroup, userAllow |-> userAllow],
           Post(client.baseURL \o "/=/user/new",
                {<<"username", <<username>>>>, <<"epassword", <<password>>>>,
                 <<"epassword_verify", <<password>>>>,
                 <<"change_password_on_first_login",
                   <<IF changePasswordOnFirstLogin THEN "1" ELSE "0">>>>,
                 <<"description", <<description>>>>,
                 <<"auth_group", <<Itoa(authGroup)>>>>,
                 <<"user_allow", userAllowFormatted(userAllow.v)>>}))

CreateInternalUser_return(p) ==
    /\ pc[p] = "wait1" /\ call[p].op = "CreateInternalUser"
    /\ \E o \in Answers(p, UserCreateOutcomes) :
          Return1(p, o, CreateInternalUser_result(call[p].username, o))

\* a wire timestamp as its fields and separators
DateTime(y, mo, d, sep, h, mi, sec) == <<y, "-", mo, "-", d, sep, h, ":", mi, ":", sec>>

\* time.Parse(time.DateTime, s): "2006-01-02 15:04:05", read as UTC
ParseDateTime(s) ==
    IF /\ Len(s) = 11
       /\ s[2] = "-" /\ s[4] = "-" /\ s[6] = " " /\ s[8] = ":" /\ s[10] = ":"
       /\ s[3] \in 1..12 /\ s[5] \in 1..31 /\ s[7] \in 0..23
       /\ s[9] \in 0..59 /\ s[11] \in 0..59
    THEN [ok |-> TRUE,
          v |-> [year |-> s[1], month |-> s[3], day |-> s[5], hour |-> s[7],
                 minute |-> s[9], second |-> s[11], location |-> "UTC"]]
    ELSE [ok |-> FALSE, v |-> <<>>]

WireDates ==
    {Str(DateTime(2024, 12, 3, " ", 14, 17, 22)), Str(DateTime(2024, 12, 3, "T", 14, 17, 22)),
     Str(DateTime(2024, 13, 3, " ", 14, 17, 22))}
WireAuthGroups == {Str("User"), Str("SuperAdmin"), Str("Admin"), Null}
UserGroupWire ==
    [groupname |-> Str("user"), name |-> Str("User"), notes |-> Null, id |-> Num(2),
     description |-> Null]

UserReadWire ==
    [modified_by : {Str("admin")}, description : {Str("a user")},
     modified_date : WireDates, username : {Str("ann")}, auth_group : WireAuthGroups,
     name : {Str("ann")}, epassword : {Str("*****")},
     passwd_changed_date : {Str(DateTime(2024, 12, 3, " ", 14, 17, 22)),
                            Str(DateTime(2024, 12, 3, " ", 24, 17, 22))},
     id : WireIDs, groups : {<<>>, <<UserGroupWire>>}]
UserReadBodies == {JsonBody(JObj(w)) : w \in UserReadWire}
UserReadOutcomes ==
    Outcomes(UserReadBodies, {b \in UserReadBodies : b.json.items[1].groups = <<>>})

\* json.Decode into userRead; the two dates stay strings at this point
userRead(body) ==
    IF body.broken \/ body.json.k # "obj" THEN [ok |-> FALSE, v |-> <<>>]
    ELSE LET w == body.json.items[1]
             Group(g) == [GroupName |-> StringOf(g.groupname).v,
                          Name |-> StringOf(g.name).v,
                          Notes |-> IF g.notes.t = "null" THEN NilRef ELSE Ref(g.notes.s),
                          Id |-> IntOf(g.id).v,
                          Description |-> IF g.description.t = "null" THEN NilRef
                                          ELSE Ref(g.description.s)]
         IN [ok |-> /\ StringOf(w.modified_by).ok /\ StringOf(w.description).ok
                    /\ StringOf(w.modified_date).ok /\ StringOf(w.username).ok
                    /\ StringOf(w.auth_group).ok /\ StringOf(w.name).ok
                    /\ StringOf(w.epassword).ok /\ StringOf(w.passwd_changed_date).ok
                    /\ IntOf(w.id).ok,
             v |-> [ModifiedBy |-> StringOf(w.modified_by).v,
                    Description |-> StringOf(w.description).v,
                    ModifiedDate |-> StringOf(w.modified_date).v,
                    Username |-> StringOf(w.username).v,
                    AuthGroup |-> StringOf(w.auth_group).v,
                    Name |-> StringOf(w.name).v,
                    PasswdChangedDate |-> StringOf(w.passwd_changed_date).v,
                    Id |-> IntOf(w.id).v,
                    Groups |-> [i \in 1..Len(w.groups) |-> Group(w.groups[i])]]]

\* GetInternalUser with a switch whose default falls back to AuthGroupUser
GetInternalUser_result_defaultUser(o) ==
    LET d == IF o.kind = "resp" THEN userRead(o.body) ELSE [ok |-> FALSE, v |-> <<>>]
        modifiedDate == ParseDateTime(d.v.ModifiedDate)
        passwordChangedDate == ParseDateTime(d.v.PasswdChangedDate)
        ag == IF d.v.AuthGroup = "SuperAdmin" THEN AuthGroupSuperAdmin ELSE AuthGroupUser
    IN IF o.kind = "err" THEN Result(NilRef, o.err)
       ELSE IF o.code # StatusOK THEN Result(NilRef, errorTidyDNS(o.code))
       ELSE IF ~d.ok THEN Result(NilRef, ErrDecode)
       ELSE IF ~modifiedDate.ok THEN Result(NilRef, Err("parsing time"))
       ELSE IF ~passwordChangedDate.ok THEN Result(NilRef, Err("parsing time"))
       ELSE Result(Ref([ModifiedBy |-> d.v.ModifiedBy, Description |-> d.v.Description,
                        ModifiedDate |-> modifiedDate.v, Username |-> d.v.Username,
                        AuthGroup |-> ag, Name |-> d.v.Name,
                        PasswdChangedDate |-> passwordChangedDate.v, Id |-> d.v.Id,
                        Groups |-> d.v.Groups]),
                   NoError)

GetInternalUser_result(o) ==
    LET d == IF o.kind = "resp" THEN userRead(o.body) ELSE [ok |-> FALSE, v |-> <<>>]
        modifiedDate == ParseDateTime(d.v.ModifiedDate)
        passwordChangedDate == ParseDateTime(d.v.PasswdChangedDate)
        ag == IF d.v.AuthGroup = "User" THEN AuthGroupUser ELSE AuthGroupSuperAdmin
    IN IF o.kind = "err" THEN Result(NilRef, o.err)
       ELSE IF o.code # StatusOK THEN Result(NilRef, errorTidyDNS(o.code))
       ELSE IF ~d.ok THEN Result(NilRef, ErrDecode)
       ELSE IF ~modifiedDate.ok THEN Result(NilRef, Err("parsing time"))
       ELSE IF ~passwordChangedDate.ok THEN Result(NilRef, Err("parsing time"))
       ELSE IF d.v.AuthGroup \notin {"User", "SuperAdmin"}
            THEN Result(NilRef, Err("unknown auth group"))
       ELSE Result(Ref([ModifiedBy |-> d.v.ModifiedBy, Description |-> d.v.Description,
                        ModifiedDate |-> modifiedDate.v, Username |-> d.v.Username,
                        AuthGroup |-> ag, Name |-> d.v.Name,
                        PasswdChangedDate |-> passwordChangedDate.v, Id |-> d.v.Id,
                        Groups |-> d.v.Groups]),
                   NoError)

GetInternalUser(p, userID) ==
    /\ pc[p] = "idle"
    /\ Invoke(p, [op |-> "GetInternalUser", userID |-> userID],
           Get("GET", client.baseURL \o "/=/user/" \o Itoa(userID)))

GetInternalUser_return(p) ==
    /\ pc[p] = "wait1" /\ call[p].op = "GetInternalUser"
    /\ \E o \in Answers(p, UserReadOutcomes) : Return1(p, o, GetInternalUser_result(o))

UpdateInternalUser_result(o) ==
    LET d == IF o.kind = "resp" THEN userCreate(o.body) ELSE [ok |-> FALSE, v |-> <<>>]
    IN IF o.kind = "err" THEN Result(NilRef, o.err)
       ELSE IF o.code # StatusOK THEN Result(NilRef, errorTidyDNS(o.code))
       ELSE IF ~d.ok THEN Result(NilRef, ErrDecode)
       ELSE Result(NilRef, NoError)

\* the form of UpdateInternalUser: a field for each argument that is not nil
\* the update form built the way the create form is: every field always set, an
\* absent argument sent as its zero value
UpdateInternalUser_data_always(password, description, authGroup, userAllow) ==
    {<<"epassword", <<password.v>>>>, <<"epassword_verify", <<password.v>>>>,
     <<"description", <<description.v>>>>,
     <<"auth_group", <<IF authGroup.nil THEN "" ELSE Itoa(authGroup.v)>>>>,
     <<"user_allow", userAllowFormatted(userAllow.v)>>}

UpdateInternalUser_data(password, description, authGroup, userAllow) ==
    (IF ~password.nil
     THEN {<<"epassword", <<password.v>>>>, <<"epassword_verify", <<password.v>>>>}
     ELSE {})
    \cup (IF ~description.nil THEN {<<"description", <<description.v>>>>} ELSE {})
    \cup (IF ~authGroup.nil THEN {<<"auth_group", <<Itoa(authGroup.v)>>>>} ELSE {})
    \cup (IF ~userAllow.nil THEN {<<"user_allow", userAllowFormatted(userAllow.v)>>}
          ELSE {})

UpdateInternalUser(p, userID, password, description, authGroup, userAllow) ==
    /\ pc[p] = "idle"
    /\ Invoke(p, [op |-> "UpdateInternalUser", userID |-> userID, password |-> password,
               description |-> description, authGroup |-> authGroup,
               userAllow |-> userAllow],
           Post(client.baseURL \o "/=/user/" \o Itoa(userID),
                UpdateInternalUser_data(password, description, authGroup, userAllow)))

UpdateInternalUser_return(p) ==
    /\ pc[p] = "wait1" /\ call[p].op = "UpdateInternalUser"
    /\ \E o \in Answers(p, UserCreateOutcomes) : Return1(p, o, UpdateInternalUser_result(o))

DeleteInternalUser_result(o) ==
    IF o.kind = "err" THEN Result(NilRef, o.err)
    ELSE IF o.code # StatusOK THEN Result(NilRef, errorTidyDNS(o.code))
    ELSE Result(NilRef, NoError)

DeleteInternalUser(p, userID) ==
    /\ pc[p] = "idle"
    /\ Invoke(p, [op |-> "DeleteInternalUser", userID |-> userID],
           Get("DELETE", client.baseURL \o "/=/user/" \o Itoa(userID)))

DeleteInternalUser_return(p) ==
    /\ pc[p] = "wait1" /\ call[p].op = "DeleteInternalUser"
    /\ \E o \in Answers(p, PlainOutcomes) : Return1(p, o, DeleteInternalUser_result(o))

\* the pointer arguments callers pass: nil, or a pointer to a value of S
Optional(S, zero) == {[nil |-> TRUE, v |-> zero]} \cup {Ref(x) : x \in S}

Init ==
    /\ client = New("https://tidy.example", "username", "password")
    /\ callers = {"c1"}
    /\ pc = [p \in Procs |-> "idle"]
    /\ call = [p \in Procs |-> NoCall]
    /\ sent = [p \in Procs |-> <<>>]
    /\ got = [p \in Procs |-> <<>>]
    /\ open = [p \in Procs |-> {}]
    /\ ret = [p \in Procs |-> Result(0, NoError)]
    /\ ctx = [p \in Procs |-> "live"]
    /\ server = [unique |-> FALSE, taken |-> {}, stores |-> FALSE, rows |-> <<>>]

Next ==
    \E p \in Procs :
        \/ ListZones(p)
        \/ ListZones_return(p)
        \/ \E name \in Names : FindZoneID(p, name)
        \/ FindZoneID_return(p)
        \/ \E z \in ZoneIDs : ListRecords(p, z)
        \/ ListRecords_return(p)
        \/ \E z \in ZoneIDs, info \in RecordInputs : CreateRecord(p, z, info)
        \/ CreateRecord_post(p)
        \/ CreateRecord_return(p)
        \/ \E z \in ZoneIDs, r \in RecordIDs, info \in RecordInputs :
              UpdateRecord(p, z, r, info)
        \/ UpdateRecord_return(p)
        \/ \E z \in ZoneIDs, r \in RecordIDs : DeleteRecord(p, z, r)
        \/ DeleteRecord_return(p)
        \/ \E z \in ZoneIDs, info \in RecordInputs :
              FindRecord(p, z, info.Name, info.Type)
        \/ FindRecord_return(p)
        \/ \E z \in ZoneIDs, r \in RecordIDs : ReadRecord(p, z, r)
        \/ ReadRecord_return(p)
        \/ \E c \in CIDRs : GetSubnetIDs(p, c)
        \/ GetSubnetIDs_return(p)
        \/ \E s \in SubnetIDs : GetFreeIP(p, s)
        \/ GetFreeIP_return(p)
        \/ \E i \in IPs : CreateDHCPInterface(p, CreateInfo(i))
        \/ CreateDHCPInterface_return(p)
        \/ \E i \in InterfaceIDs : ReadDHCPInterface(p, i)
        \/ ReadDHCPInterface_return(p)
        \/ \E i \in InterfaceIDs, n \in Names : UpdateDHCPInterfaceName(p, i, n)
        \/ UpdateDHCPInterfaceName_return(p)
        \/ \E i \in InterfaceIDs : DeleteDHCPInterface(p, i)
        \/ DeleteDHCPInterface_return(p)
        \/ \E u \in Usernames, c \in BOOLEAN,
              g \in {AuthGroupSuperAdmin, AuthGroupUser}, ua \in UserAllows :
              CreateInternalUser(p, u, "secret", "a user", c, g, ua)
        \/ CreateInternalUser_return(p)
        \/ \E u \in UserIDs : GetInternalUser(p, u)
        \/ GetInternalUser_return(p)
        \/ \E u \in UserIDs, pw \in Optional({"secret"}, ""), d \in Optional({"", "desc"}, ""),
              g \in Optional({AuthGroupSuperAdmin, AuthGroupUser}, 0), ua \in UserAllows :
              UpdateInternalUser(p, u, pw, d, g, ua)
        \/ UpdateInternalUser_return(p)
        \/ \E u \in UserIDs : DeleteInternalUser(p, u)
        \/ DeleteInternalUser_return(p)
        \/ Cancel(p)
        \/ Dismiss(p)

Spec == Init /\ [][Next]_vars

(***************************************************************************)
(* Two callers share the client against a service that keeps destinations  *)
(* unique: each allocates an address (GetFreeIP, CreateDHCPInterface) and  *)
(* reads a record.                                                         *)
(***************************************************************************)
InitShared ==
    /\ client = New("https://tidy.example", "username", "password")
    /\ callers = Procs
    /\ pc = [p \in Procs |-> "idle"]
    /\ call = [p \in Procs |-> NoCall]
    /\ sent = [p \in Procs |-> <<>>]
    /\ got = [p \in Procs |-> <<>>]
    /\ open = [p \in Procs |-> {}]
    /\ ret = [p \in Procs |-> Result(0, NoError)]
    /\ ctx = [p \in Procs |-> "live"]
    /\ server = [unique |-> TRUE, taken |-> {}, stores |-> FALSE, rows |-> <<>>]

NextShared ==
    \E p \in Procs :
        \/ \E s \in SubnetIDs : GetFreeIP(p, s)
        \/ GetFreeIP_return(p)
        \/ \E i \in IPs : CreateDHCPInterface(p, CreateInfo(i))
        \/ CreateDHCPInterface_return(p)
        \/ \E z \in ZoneIDs : ReadRecord(p, z, 1)
        \/ ReadRecord_return(p)
        \/ Dismiss(p)

SpecShared == InitShared /\ [][NextShared]_vars

(***************************************************************************)
(* Two callers create records in one zone of a service that stores them.   *)
(* The zone is empty at first, or holds a deleted record with the type,    *)
(* name and destination that the callers are about to create.              *)
(***************************************************************************)
InitRecords ==
    /\ client = New("https://tidy.example", "username", "password")
    /\ callers = Procs
    /\ pc = [p \in Procs |-> "idle"]
    /\ call = [p \in Procs |-> NoCall]
    /\ sent = [p \in Procs |-> <<>>]
    /\ got = [p \in Procs |-> <<>>]
    /\ open = [p \in Procs |-> {}]
    /\ ret = [p \in Procs |-> Result(0, NoError)]
    /\ ctx = [p \in Procs |-> "live"]
    /\ \E old \in {<<>>,
                   <<[by |-> "none",
                      wire |-> [id |-> Num(1), type |-> Num(RecordTypeA),
                                name |-> Str("a"), description |-> Null,
                                destination |-> Str("10.0.0.1"), ttl |-> Num(0),
                                status |-> Null, location_id |-> Num(1)]]>>} :
          server = [unique |-> FALSE, taken |-> {}, stores |-> TRUE, rows |-> old]

NextRecords ==
    \E p \in Procs :
        \/ \E z \in ZoneIDs, info \in RecordInputs :
              /\ Len(server.rows) + Cardinality({q \in Procs : pc[q] = "wait1"}) < MaxRecords
              /\ CreateRecord(p, z, info)
        \/ CreateRecord_post(p)
        \/ CreateRecord_return(p)
        \/ Cancel(p)
        \/ Dismiss(p)

SpecRecords == InitRecords /\ [][NextRecords]_vars

(***************************************************************************)
(* Properties.                                                             *)
(***************************************************************************)
\* p's call of op has returned
Done(p, op) == pc[p] = "done" /\ call[p].op = op

\* the i-th answer p got is a response with status 200 and a readable body
OK200(p, i) ==
    /\ Len(got[p]) >= i /\ got[p][i].kind = "resp" /\ got[p][i].code = StatusOK
    /\ ~got[p][i].body.broken

\* the entries of the JSON array in the i-th answer
Items(p, i) == got[p][i].body.json.items

\* the operations that return an int, a string, and a pointer, slice or nothing
IntOps ==
    {"CreateRecord", "FindZoneID", "CreateDHCPInterface", "UpdateDHCPInterfaceName",
     "CreateInternalUser"}
StringOps == {"GetFreeIP"}

\* p's call returned the zero value of its result type
ZeroResult(p) ==
    IF call[p].op \in IntOps THEN ret[p].val = 0
    ELSE IF call[p].op \in StringOps THEN ret[p].val = ""
    ELSE ret[p].val.nil

\* C1: once the create POST has succeeded and the merged list has been fetched
\* and decoded, CreateRecord returns without error the id of the first list
\* entry whose type, name and destination equal the input's, and returns 0 with
\* "unable to find new record" when no entry has that triple.
C1_CreateRecordReturnsMatchingEntry ==
    \A p \in Procs :
        (Done(p, "CreateRecord") /\ OK200(p, 2) /\ got[p][2].body.json.k = "list") =>
            LET L == Items(p, 2)
                info == call[p].info
                Hit(i) == /\ L[i].type = Num(info.Type) /\ L[i].name = Str(info.Name)
                          /\ L[i].destination = Str(info.Destination)
                hits == {i \in 1..Len(L) : Hit(i)}
            IN IF hits # {}
               THEN /\ ret[p].err = NoError
                    /\ \E i \in hits : /\ \A j \in hits : i <= j
                                       /\ L[i].id.t \in {"num", "null"}
                                       /\ ret[p].val = L[i].id.n
               ELSE ret[p] = Result(0, Err("unable to find new record"))

\* C1 witness: the list holds the triple twice under different ids, after an
\* entry that differs in the destination only, and the first of the two is returned
C1_Witness ==
    \E p \in Procs :
        /\ Done(p, "CreateRecord") /\ OK200(p, 2) /\ got[p][2].body.json.k = "list"
        /\ Len(Items(p, 2)) = 2
        /\ Items(p, 2)[1].type = Num(call[p].info.Type)
        /\ Items(p, 2)[1].name = Str(call[p].info.Name)
        /\ Items(p, 2)[1].destination # Str(call[p].info.Destination)
        /\ Items(p, 2)[2].type = Num(call[p].info.Type)
        /\ Items(p, 2)[2].name = Str(call[p].info.Name)
        /\ Items(p, 2)[2].destination = Str(call[p].info.Destination)
        /\ Items(p, 2)[1].id = Num(1) /\ Items(p, 2)[2].id = Num(2)
        /\ ret[p] = Result(2, NoError)

\* C2: FindZoneID returns without error the id of the first returned zone whose
\* name is exactly the requested one, whatever near-matches the list also
\* holds, and returns 0 with an error when no zone has exactly that name.
C2_FindZoneIDExactMatch ==
    \A p \in Procs :
        (Done(p, "FindZoneID") /\ OK200(p, 1) /\ zoneInfo(got[p][1].body).ok) =>
            LET L == Items(p, 1)
                hits == {i \in 1..Len(L) : L[i].name = Str(call[p].name)}
            IN IF hits # {}
               THEN /\ ret[p].err = NoError
                    /\ \E i \in hits : /\ \A j \in hits : i <= j
                                       /\ ret[p].val = L[i].id.n
               ELSE ret[p].val = 0 /\ ret[p].err # NoError

\* C2 witness: the exact match comes second, after a near-match with another id
C2_Witness ==
    \E p \in Procs :
        /\ Done(p, "FindZoneID") /\ OK200(p, 1) /\ call[p].name = "a"
        /\ Items(p, 1) = <<[id |-> Num(1), name |-> Str("ab")],
                           [id |-> Num(2), name |-> Str("a")]>>
        /\ ret[p] = Result(2, NoError)

\* C3: on a decoded 200 answer GetSubnetIDs returns "subnet not found" for no
\* subnet, the different error "too many subnets found" for more than one, and
\* the SubnetID, ZoneID and VlanNo of the subnet when there is exactly one; it
\* returns a result only then.
C3_GetSubnetIDsExactlyOne ==
    \A p \in Procs :
        Done(p, "GetSubnetIDs") =>
            /\ (OK200(p, 1) /\ got[p][1].body.json.k = "list") =>
                  LET L == Items(p, 1)
                  IN /\ Len(L) = 0 => ret[p].val.nil /\ ret[p].err = Err("subnet not found")
                     /\ Len(L) > 1 =>
                           ret[p].val.nil /\ ret[p].err = Err("too many subnets found")
                     /\ Len(L) = 1 =>
                           /\ ret[p].err = NoError
                           /\ ret[p].val = Ref([SubnetID |-> L[1].id.n,
                                                ZoneID |-> L[1].zone_id.n,
                                                VlanNo |-> L[1].vlan_no.n])
            /\ ret[p].err = NoError =>
                  OK200(p, 1) /\ got[p][1].body.json.k = "list" /\ Len(Items(p, 1)) = 1

\* C3 witness: two subnets are reported and the ambiguity error comes back
C3_Witness ==
    \E p \in Procs :
        /\ Done(p, "GetSubnetIDs") /\ OK200(p, 1) /\ got[p][1].body.json.k = "list"
        /\ Len(Items(p, 1)) = 2
        /\ ret[p].err = Err("too many subnets found")

\* p's CreateDHCPInterface got a readable body that holds the duplicate-key
\* message for the submitted InterfaceIP
DuplicateDestination(p) ==
    /\ Done(p, "CreateDHCPInterface")
    /\ got[p][1].kind = "resp" /\ ~got[p][1].body.broken
    /\ Contains(got[p][1].body.text, DestinationExists(call[p].createInfo.InterfaceIP))

\* C4 as claimed: whenever the body holds the duplicate-key message for the
\* submitted InterfaceIP, CreateDHCPInterface returns the "try again" error.
C4_ConflictWheneverBodyNamesIP ==
    \A p \in Procs : DuplicateDestination(p) => ret[p].err = Err("try again")

\* C4: whenever the status is not 200 and the body holds the duplicate-key
\* message for the submitted InterfaceIP, CreateDHCPInterface returns the
\* "try again" error and not the status error, whichever the status is.
C4_ConflictOnNon200 ==
    \A p \in Procs :
        (DuplicateDestination(p) /\ got[p][1].code # StatusOK) =>
            /\ ret[p].err = Err("try again")
            /\ ret[p].err # errorTidyDNS(got[p][1].code)

\* C4 witness: the message arrives under 500 and the conflict is reported
C4_Witness ==
    \E p \in Procs :
        /\ DuplicateDestination(p) /\ got[p][1].code = 500
        /\ ret[p].err = Err("try again")

\* C5: a call issues at most one request, CreateRecord at most two (a POST, then
\* a GET); no request is issued twice; a call that has returned has no request
\* outstanding, and a request that failed is the last one of its call.
C5_NoRequestIsResent ==
    \A p \in Procs :
        /\ Len(sent[p]) <= (IF call[p].op = "CreateRecord" THEN 2 ELSE 1)
        /\ Len(sent[p]) = 2 => sent[p][1].method = "POST" /\ sent[p][2].method = "GET"
        /\ \A i, j \in 1..Len(sent[p]) : i # j => sent[p][i] # sent[p][j]
        /\ pc[p] = "done" => Len(sent[p]) = Len(got[p])
        /\ \A i \in 1..Len(got[p]) :
              (got[p][i].kind = "err" \/ got[p][i].code # StatusOK) =>
                  pc[p] = "done" /\ Len(sent[p]) = i

\* C5 witness: CreateDHCPInterface has returned the conflict after one request
C5_Witness ==
    \E p \in Procs :
        /\ Done(p, "CreateDHCPInterface") /\ ret[p].err = Err("try again")
        /\ Len(sent[p]) = 1

\* C6: CreateRecord issues the merged-list GET only after its POST came back
\* with status 200; when the POST fails in transport or has another status,
\* CreateRecord has returned 0 and an error and has issued no GET.
C6_CreateRecordGetAfterPost200 ==
    \A p \in Procs :
        call[p].op = "CreateRecord" =>
            /\ sent[p][1].method = "POST"
            /\ Len(sent[p]) = 2 =>
                  /\ Len(got[p]) >= 1
                  /\ got[p][1].kind = "resp" /\ got[p][1].code = StatusOK
                  /\ sent[p][2].method = "GET"
                  /\ sent[p][2].url = recordMergeUrl(call[p].zoneID)
            /\ (Len(got[p]) >= 1 /\ (got[p][1].kind = "err" \/ got[p][1].code # StatusOK)) =>
                  /\ pc[p] = "done" /\ Len(sent[p]) = 1
                  /\ ret[p].val = 0 /\ ret[p].err # NoError

\* C6 witness: the POST came back 201 and CreateRecord stopped there
C6_Witness ==
    \E p \in Procs :
        /\ Done(p, "CreateRecord") /\ got[p][1].kind = "resp" /\ got[p][1].code = 201
        /\ Len(sent[p]) = 1 /\ ret[p].err = errorTidyDNS(201)

\* C7 as claimed: while CreateRecord's GET is issued, the body of the POST
\* response is closed.
C7_PostBodyClosedBeforeGet ==
    \A p \in Procs :
        (call[p].op = "CreateRecord" /\ Len(sent[p]) = 2 /\ pc[p] = "wait2") =>
            1 \notin open[p]

ReturnedIDs(p) ==
    IF call[p].op \in IntOps THEN {ret[p].val}
    ELSE IF call[p].op \in StringOps THEN {}
    ELSE IF ret[p].val.nil THEN {}
    ELSE IF call[p].op \in {"ListZones", "ListRecords", "FindRecord"}
         THEN {ret[p].val.v[i].ID : i \in 1..Len(ret[p].val.v)}
    ELSE IF call[p].op = "ReadRecord" THEN {ret[p].val.v.ID}
    ELSE IF call[p].op = "GetSubnetIDs" THEN {ret[p].val.v.SubnetID}
    ELSE {}

\* C9 as claimed: every id returned to a caller is a positive integer.
C9_ReturnedIDsArePositive ==
    \A p \in Procs :
        (pc[p] = "done" /\ ret[p].err = NoError) => \A id \in ReturnedIDs(p) : id > 0

\* the id values of the answers p got: the number sent, 0 for null or no id
ReceivedIDs(p) ==
    UNION {IF got[p][i].kind # "resp" THEN {}
           ELSE {got[p][i].body.json.items[k].id.n :
                    k \in {j \in 1..Len(got[p][i].body.json.items) :
                              "id" \in DOMAIN got[p][i].body.json.items[j]}} :
           i \in 1..Len(got[p])}

\* C9: every id returned without an error is the id value of an entry of a
\* response to that call, the number the server sent or 0 where it sent null or
\* no id, and it is positive when the number sent is; with an error the id
\* position holds 0, or the 1 that goes with the conflict of CreateDHCPInterface.
C9_ReturnedIDsComeFromResponses ==
    \A p \in Procs :
        pc[p] = "done" =>
            /\ ret[p].err = NoError => ReturnedIDs(p) \subseteq ReceivedIDs(p)
            /\ (Done(p, "ListRecords") /\ ret[p].err = NoError) =>
                  \A i \in 1..Len(Items(p, 1)) :
                      /\ Items(p, 1)[i].id.t = "num" =>
                            ret[p].val.v[i].ID = Items(p, 1)[i].id.n
                      /\ Items(p, 1)[i].id.t = "null" => ret[p].val.v[i].ID = 0
            /\ ret[p].err # NoError =>
                  \/ ReturnedIDs(p) \subseteq {0}
                  \/ /\ call[p].op = "CreateDHCPInterface"
                     /\ ret[p] = Result(1, Err("try again"))

\* C9 witness: ListRecords returns the server's id 2 and a 0 for a row without id
C9_Witness ==
    \E p \in Procs :
        /\ Done(p, "ListRecords") /\ ret[p].err = NoError /\ Len(Items(p, 1)) = 2
        /\ Items(p, 1)[1].id = Num(2) /\ Items(p, 1)[2].id = Null
        /\ ret[p].val.v[1].ID = 2 /\ ret[p].val.v[2].ID = 0

\* C10: on a 200 answer with a list ListRecords returns without error one
\* RecordInfo per entry, in the order of the list, each with the entry's id,
\* type, name and destination, whatever the entry's status is.
C10_ListRecordsKeepsEveryEntry ==
    \A p \in Procs :
        (Done(p, "ListRecords") /\ OK200(p, 1) /\ got[p][1].body.json.k = "list") =>
            LET L == Items(p, 1)
            IN /\ ret[p].err = NoError /\ ~ret[p].val.nil
               /\ Len(ret[p].val.v) = Len(L)
               /\ \A i \in 1..Len(L) :
                     /\ ret[p].val.v[i].ID = L[i].id.n
                     /\ ret[p].val.v[i].Type = L[i].type.n
                     /\ ret[p].val.v[i].Name = L[i].name.s
                     /\ ret[p].val.v[i].Destination = L[i].destination.s

\* C10 witness: a deleted row without id and a row with a string status are
\* both returned
C10_Witness ==
    \E p \in Procs :
        /\ Done(p, "ListRecords") /\ OK200(p, 1) /\ got[p][1].body.json.k = "list"
        /\ Len(Items(p, 1)) = 2
        /\ Items(p, 1)[1].id = Null /\ Items(p, 1)[1].status = Num(-1)
        /\ Items(p, 1)[2].status = Str("0")
        /\ ret[p].err = NoError /\ Len(ret[p].val.v) = 2

\* the indices of the entries of p's first answer that have the type and the
\* name FindRecord was called with
FindRecordHits(p) ==
    {i \in 1..Len(Items(p, 1)) :
        /\ Items(p, 1)[i].type = Num(call[p].rType)
        /\ Items(p, 1)[i].name = Str(call[p].name)}

\* C11: on a 200 answer with a list FindRecord returns without error a non-nil
\* sequence that holds, in the order of the list, exactly the entries whose type
\* and name equal the arguments: the k-th returned record is the k-th such
\* entry, and the sequence is empty when there is none.
C11_FindRecordFiltersTypeAndName ==
    \A p \in Procs :
        (Done(p, "FindRecord") /\ OK200(p, 1) /\ got[p][1].body.json.k = "list") =>
            LET L == Items(p, 1)
                hits == FindRecordHits(p)
            IN /\ ret[p].err = NoError /\ ~ret[p].val.nil
               /\ Len(ret[p].val.v) = Cardinality(hits)
               /\ \A i \in hits :
                     LET k == Cardinality({j \in hits : j <= i})
                     IN /\ ret[p].val.v[k].ID = L[i].id.n
                        /\ ret[p].val.v[k].Type = call[p].rType
                        /\ ret[p].val.v[k].Name = call[p].name
                        /\ ret[p].val.v[k].Destination = L[i].destination.s

\* C11 witness: of two entries of the requested type only the second has the
\* requested name, and it alone is returned
C11_Witness ==
    \E p \in Procs :
        /\ Done(p, "FindRecord") /\ OK200(p, 1) /\ got[p][1].body.json.k = "list"
        /\ Len(Items(p, 1)) = 2
        /\ Items(p, 1)[1].type = Num(call[p].rType)
        /\ Items(p, 1)[1].name # Str(call[p].name)
        /\ 2 \in FindRecordHits(p)
        /\ ret[p].err = NoError /\ Len(ret[p].val.v) = 1
        /\ ret[p].val.v[1].ID = Items(p, 1)[2].id.n

\* C11, the empty case: nothing matches and an empty, non-nil sequence comes
\* back without error
C11_EmptyReached ==
    \E p \in Procs :
        /\ Done(p, "FindRecord") /\ OK200(p, 1) /\ got[p][1].body.json.k = "list"
        /\ Len(Items(p, 1)) = 2 /\ FindRecordHits(p) = {}
        /\ ret[p] = Result(Ref(<<>>), NoError)

\* p's GetInternalUser got a 200 answer that decodes into a userRead
UserDecoded(p) ==
    Done(p, "GetInternalUser") /\ OK200(p, 1) /\ userRead(got[p][1].body).ok

\* the wire fields of the user in p's answer
UserFields(p) == got[p][1].body.json.items[1]

\* both dates of the user in p's answer are in the time.DateTime layout
UserDatesParse(p) ==
    /\ ParseDateTime(UserFields(p).modified_date.s).ok
    /\ ParseDateTime(UserFields(p).passwd_changed_date.s).ok

\* C12: GetInternalUser returns a UserInfo with AuthGroupUser (2) for the wire
\* auth_group "User" and with AuthGroupSuperAdmin (1) for "SuperAdmin" (the dates
\* being well-formed), and for every other auth_group, a missing one included,
\* it returns an error and no UserInfo.
C12_AuthGroupMapping ==
    \A p \in Procs :
        UserDecoded(p) =>
            LET g == UserFields(p).auth_group
            IN /\ (g = Str("User") /\ UserDatesParse(p)) =>
                     /\ ret[p].err = NoError /\ ~ret[p].val.nil
                     /\ ret[p].val.v.AuthGroup = AuthGroupUser /\ AuthGroupUser = 2
               /\ (g = Str("SuperAdmin") /\ UserDatesParse(p)) =>
                     /\ ret[p].err = NoError /\ ~ret[p].val.nil
                     /\ ret[p].val.v.AuthGroup = AuthGroupSuperAdmin
                     /\ AuthGroupSuperAdmin = 1
               /\ g \notin {Str("User"), Str("SuperAdmin")} =>
                     /\ ret[p].val.nil /\ ret[p].err # NoError
                     /\ UserDatesParse(p) => ret[p].err = Err("unknown auth group")

\* C12 witness: a user with well-formed dates and the auth_group "Admin" is
\* refused with the unknown-group error
C12_Witness ==
    \E p \in Procs :
        /\ UserDecoded(p) /\ UserDatesParse(p)
        /\ UserFields(p).auth_group = Str("Admin")
        /\ ret[p] = Result(NilRef, Err("unknown auth group"))

\* C12, the mapped case: "SuperAdmin" arrives and AuthGroupSuperAdmin is returned
C12_SuperAdminReached ==
    \E p \in Procs :
        /\ UserDecoded(p) /\ UserFields(p).auth_group = Str("SuperAdmin")
        /\ ret[p].err = NoError /\ ret[p].val.v.AuthGroup = AuthGroupSuperAdmin

\* the keys of a form
Keys(form) == {kv[1] : kv \in form}

\* C13: the form UpdateInternalUser posts holds epassword and epassword_verify,
\* both with the password, iff password is non-nil; description iff description
\* is non-nil; auth_group iff authGroup is non-nil; user_allow iff userAllow is
\* non-nil; and no other field. A field whose argument is nil is absent.
C13_UpdateFormHoldsPresentFields ==
    \A p \in Procs :
        call[p].op = "UpdateInternalUser" =>
            LET c == call[p]
                form == sent[p][1].form
            IN /\ sent[p][1].method = "POST" /\ sent[p][1].contentType = mimeForm
               /\ Keys(form) =
                     (IF c.password.nil THEN {} ELSE {"epassword", "epassword_verify"})
                     \cup (IF c.description.nil THEN {} ELSE {"description"})
                     \cup (IF c.authGroup.nil THEN {} ELSE {"auth_group"})
                     \cup (IF c.userAllow.nil THEN {} ELSE {"user_allow"})
               /\ \A kv \in form : \A kw \in form : kv[1] = kw[1] => kv = kw
               /\ ~c.password.nil =>
                     /\ Values(form, "epassword") = <<c.password.v>>
                     /\ Values(form, "epassword_verify") = <<c.password.v>>
               /\ ~c.description.nil => Values(form, "description") = <<c.description.v>>
               /\ ~c.authGroup.nil =>
                     Values(form, "auth_group") = <<Itoa(c.authGroup.v)>>
               /\ ~c.userAllow.nil =>
                     Values(form, "user_allow") = userAllowFormatted(c.userAllow.v)

\* C13 witness: only description is given, and the posted form is the
\* description field alone
C13_Witness ==
    \E p \in Procs :
        /\ call[p].op = "UpdateInternalUser"
        /\ call[p].password.nil /\ call[p].authGroup.nil /\ call[p].userAllow.nil
        /\ call[p].description = Ref("desc")
        /\ sent[p][1].form = {<<"description", <<"desc">>>>}

\* C14: the form CreateInternalUser posts holds change_password_on_first_login
\* as "1" for a true flag and as "0" for a false one, and always holds
\* user_allow with at least one value: one value per allowed id in the order
\* given, or the single value "" when no id is given (an empty or a nil
\* sequence).
C14_CreateFormEncoding ==
    \A p \in Procs :
        call[p].op = "CreateInternalUser" =>
            LET c == call[p]
                form == sent[p][1].form
                ids == c.userAllow.v
            IN /\ Has(form, "change_password_on_first_login")
               /\ Values(form, "change_password_on_first_login") =
                     (IF c.changePasswordOnFirstLogin THEN <<"1">> ELSE <<"0">>)
               /\ Has(form, "user_allow")
               /\ Len(Values(form, "user_allow")) >= 1
               /\ Len(ids) = 0 => Values(form, "user_allow") = <<"">>
               /\ Len(ids) > 0 =>
                     /\ Len(Values(form, "user_allow")) = Len(ids)
                     /\ \A i \in 1..Len(ids) :
                           Values(form, "user_allow")[i] =
                               (IF ids[i] = 1 THEN "1" ELSE IF ids[i] = 2 THEN "2"
                                ELSE Itoa(ids[i]))

\* C14 witness: a user is created with the flag off and an empty id sequence
C14_Witness ==
    \E p \in Procs :
        /\ call[p].op = "CreateInternalUser"
        /\ ~call[p].changePasswordOnFirstLogin /\ call[p].userAllow = Ref(<<>>)
        /\ Values(sent[p][1].form, "change_password_on_first_login") = <<"0">>
        /\ Values(sent[p][1].form, "user_allow") = <<"">>

\* C14, the ordered case: the ids 2, 1 are sent as "2", "1" with the flag on
C14_OrderReached ==
    \E p \in Procs :
        /\ call[p].op = "CreateInternalUser"
        /\ call[p].changePasswordOnFirstLogin /\ call[p].userAllow = Ref(<<2, 1>>)
        /\ Values(sent[p][1].form, "change_password_on_first_login") = <<"1">>
        /\ Values(sent[p][1].form, "user_allow") = <<"2", "1">>

\* p's CreateInternalUser got a response with a status other than 200
UserCreateRefused(p) ==
    /\ Done(p, "CreateInternalUser")
    /\ got[p][1].kind = "resp" /\ got[p][1].code # StatusOK

\* the body p got holds the duplicate-key message for the submitted username
DuplicateUsername(p) ==
    /\ ~got[p][1].body.broken
    /\ Contains(got[p][1].body.text, UsernameExists(call[p].username))

\* C15 as claimed: on a non-200 response CreateInternalUser returns 0 and
\* 'username already exists' when the body holds the duplicate-key message for
\* the submitted username, and 0 and the status error on any other non-200
\* response; it sends nothing more.
C15_DuplicateOrStatusError ==
    \A p \in Procs :
        UserCreateRefused(p) =>
            /\ Len(sent[p]) = 1
            /\ ret[p] = IF DuplicateUsername(p)
                        THEN Result(0, Err("username already exists"))
                        ELSE Result(0, errorTidyDNS(got[p][1].code))

\* C15: on a non-200 response whose body can be read CreateInternalUser returns
\* 0 and 'username already exists' when the body holds the duplicate-key message
\* for the submitted username, and 0 and the status error otherwise; when the
\* body cannot be read it returns 0 and the read error; in no case does it send
\* a further request.
C15_DuplicateReadOrStatusError ==
    \A p \in Procs :
        UserCreateRefused(p) =>
            /\ Len(sent[p]) = 1
            /\ ret[p] = IF got[p][1].body.broken THEN Result(0, Err("read"))
                        ELSE IF DuplicateUsername(p)
                             THEN Result(0, Err("username already exists"))
                        ELSE Result(0, errorTidyDNS(got[p][1].code))

\* C15 witness: creating "ann" is answered 500 with the duplicate-key message
\* for "ann", and the distinct error comes back
C15_Witness ==
    \E p \in Procs :
        /\ UserCreateRefused(p) /\ call[p].username = "ann" /\ got[p][1].code = 500
        /\ DuplicateUsername(p)
        /\ ret[p] = Result(0, Err("username already exists"))

\* C15, the other user's message: creating "ann" is answered with the
\* duplicate-key message for "bob", and the status error comes back
C15_OtherUserReached ==
    \E p \in Procs :
        /\ UserCreateRefused(p) /\ call[p].username = "ann"
        /\ ~got[p][1].body.broken
        /\ Contains(got[p][1].body.text, UsernameExists("bob"))
        /\ ret[p] = Result(0, errorTidyDNS(got[p][1].code))

\* C16: when the context of a call is cancelled while a request of the call is
\* in flight, no further request is issued, and once the call has returned, the
\* answer to its last request is the context's error, the call has returned that
\* error and no result; a CreateRecord cancelled during its POST has issued the
\* POST only.
C16_CancelAbortsTheCall ==
    \A p \in Procs :
        ctx[p] = "cancelled" =>
            /\ pc[p] \in {"wait1", "wait2", "done"}
            /\ pc[p] = "wait1" => Len(sent[p]) = 1
            /\ pc[p] = "done" =>
                  /\ Len(got[p]) = Len(sent[p])
                  /\ got[p][Len(got[p])] = Canceled
                  /\ ret[p].err = ErrCanceled
                  /\ ZeroResult(p)
                  /\ open[p] = {}
            /\ (call[p].op = "CreateRecord" /\ Len(got[p]) >= 1 /\ got[p][1] = Canceled) =>
                  Len(sent[p]) = 1 /\ sent[p][1].method = "POST"

\* C16 witness: CreateRecord was cancelled during its POST and has returned the
\* context's error after that one request
C16_Witness ==
    \E p \in Procs :
        /\ Done(p, "CreateRecord") /\ ctx[p] = "cancelled"
        /\ got[p] = <<Canceled>> /\ Len(sent[p]) = 1
        /\ ret[p] = Result(0, ErrCanceled)

\* C16, cancelled during the second request: the POST was answered 200, the GET
\* was aborted, and CreateRecord returns the context's error
C16_SecondRequestReached ==
    \E p \in Procs :
        /\ Done(p, "CreateRecord") /\ ctx[p] = "cancelled"
        /\ Len(got[p]) = 2 /\ got[p][1].kind = "resp" /\ got[p][2] = Canceled
        /\ ret[p] = Result(0, ErrCanceled)

\* the result of call c as its own answers determine it
OwnResult(c, answers) ==
    IF c.op = "GetFreeIP" THEN GetFreeIP_result(answers[1])
    ELSE IF c.op = "CreateDHCPInterface"
         THEN CreateDHCPInterface_result(c.createInfo, answers[1])
    ELSE ReadRecord_result(answers[1])

C17_InterleavingReached ==
    /\ pc["c1"] = "wait1" /\ call["c1"].op = "ReadRecord"
    /\ Done("c2", "CreateDHCPInterface") /\ ret["c2"].err = NoError

\* C18: GetFreeIP issues one GET without a body and nothing else; against a
\* service that keeps destinations unique, of two CreateDHCPInterface calls for
\* the same address that have returned at most one has succeeded, and a call
\* that has not succeeded has returned 1 and the 'try again' error, not the
\* status error.
C18_OneAllocatorWins ==
    /\ \A p \in Procs :
          /\ call[p].op = "GetFreeIP" =>
                /\ Len(sent[p]) = 1 /\ sent[p][1].method = "GET"
                /\ sent[p][1].form = NoForm
          /\ (server.unique /\ Done(p, "CreateDHCPInterface")) =>
                \/ /\ ret[p].err = NoError
                   /\ call[p].createInfo.InterfaceIP \in server.taken
                \/ ret[p] = Result(1, Err("try again"))
    /\ \A p, q \in Procs :
          (/\ p # q /\ server.unique
           /\ Done(p, "CreateDHCPInterface") /\ Done(q, "CreateDHCPInterface")
           /\ call[p].createInfo.InterfaceIP = call[q].createInfo.InterfaceIP) =>
              ~(ret[p].err = NoError /\ ret[q].err = NoError)

\* C18 witness: both allocators created an interface for 10.0.0.1; the first
\* succeeded and the second was told to try again
C18_Witness ==
    /\ server.unique
    /\ Done("c1", "CreateDHCPInterface") /\ Done("c2", "CreateDHCPInterface")
    /\ call["c1"].createInfo.InterfaceIP = "10.0.0.1"
    /\ call["c2"].createInfo.InterfaceIP = "10.0.0.1"
    /\ ret["c1"].err = NoError
    /\ ret["c2"] = Result(1, Err("try again"))

\* C18, the race: both allocators were given the same free address before
\* either has created an interface
C18_SameAddressReached ==
    /\ server.unique /\ server.taken = {}
    /\ Done("c1", "GetFreeIP") /\ Done("c2", "GetFreeIP")
    /\ ret["c1"] = Result("10.0.0.1", NoError)
    /\ ret["c2"] = Result("10.0.0.1", NoError)

C20_ListZonesKeepsEveryZone ==
    \A p \in Procs :
        (Done(p, "ListZones") /\ OK200(p, 1) /\ zoneInfo(got[p][1].body).ok) =>
            LET L == Items(p, 1)
            IN /\ ret[p].err = NoError /\ ~ret[p].val.nil
               /\ Len(ret[p].val.v) = Len(L)
               /\ Len(L) = 0 => ret[p] = Result(Ref(<<>>), NoError)
               /\ \A i \in 1..Len(L) :
                     /\ ret[p].val.v[i].ID = L[i].id.n
                     /\ ret[p].val.v[i].Name = L[i].name.s

\* C20 witness: the service answers 200 with an empty list, and ListZones
\* returns the empty sequence and no error
C20_Witness ==
    \E p \in Procs :
        /\ Done(p, "ListZones") /\ OK200(p, 1)
        /\ got[p][1].body.json = JList(<<>>)
        /\ ret[p] = Result(Ref(<<>>), NoError)

\* C20, the order: zone 2 "ab" before zone 1 "a" comes back in that order
C20_OrderReached ==
    \E p \in Procs :
        /\ Done(p, "ListZones") /\ OK200(p, 1)
        /\ Items(p, 1) = <<[id |-> Num(2), name |-> Str("ab")],
                           [id |-> Num(1), name |-> Str("a")]>>
        /\ ret[p].val.v = <<[ID |-> 2, Name |-> "ab"], [ID |-> 1, Name |-> "a"]>>

\* p's CreateDHCPInterface or UpdateDHCPInterfaceName got a 200 response whose
\* body is a JSON object with a number (or nothing) in id and in subnet_id
InterfaceAnswered(p) ==
    /\ pc[p] = "done" /\ call[p].op \in {"CreateDHCPInterface", "UpdateDHCPInterfaceName"}
    /\ OK200(p, 1) /\ got[p][1].body.json.k = "obj"
    /\ Items(p, 1)[1].id.t \in {"num", "null"}
    /\ Items(p, 1)[1].subnet_id.t \in {"num", "null"}

\* C21: CreateDHCPInterface and UpdateDHCPInterfaceName return without error the
\* id carried by a 200 response whether its status field is a string or a
\* number: the shape of status neither fails the decode nor changes the id.
C21_StatusShapeIsIgnored ==
    \A p \in Procs :
        InterfaceAnswered(p) =>
            /\ Items(p, 1)[1].status.t \in {"str", "num"}
            /\ ret[p] = Result(Items(p, 1)[1].id.n, NoError)

\* C21 witness: the status arrives as the string "0" and the id 2 of the
\* response is returned by UpdateDHCPInterfaceName
C21_Witness ==
    \E p \in Procs :
        /\ InterfaceAnswered(p) /\ call[p].op = "UpdateDHCPInterfaceName"
        /\ Items(p, 1)[1].status = Str("0") /\ Items(p, 1)[1].id = Num(2)
        /\ ret[p] = Result(2, NoError)

\* the same id arrives under the number 0 as status and is returned by
\* CreateDHCPInterface
C21_NumberReached ==
    \E p \in Procs :
        /\ InterfaceAnswered(p) /\ call[p].op = "CreateDHCPInterface"
        /\ Items(p, 1)[1].status = Num(0) /\ Items(p, 1)[1].id = Num(2)
        /\ ret[p] = Result(2, NoError)

\* C22: on a decoded 200 answer FindZoneID returns 0 with "zone not found" when
\* the server returned no zone, and 0 with "unable to match zone name" when it
\* returned zones none of which has exactly the requested name; the id of a
\* near-match is never returned.
C22_FindZoneIDFailures ==
    \A p \in Procs :
        (Done(p, "FindZoneID") /\ OK200(p, 1) /\ zoneInfo(got[p][1].body).ok) =>
            LET L == Items(p, 1)
                exact == {i \in 1..Len(L) : L[i].name = Str(call[p].name)}
            IN /\ Len(L) = 0 => ret[p] = Result(0, Err("zone not found for"))
               /\ (Len(L) > 0 /\ exact = {}) =>
                     ret[p] = Result(0, Err("unable to match zone name"))
               /\ ret[p].err = NoError =>
                     \E i \in exact : ret[p].val = L[i].id.n

\* C22 witness: the zones "ab" (id 1) and "ab" (id 2) are returned for the name
\* "a", and FindZoneID fails with "unable to match zone name" and id 0
C22_Witness ==
    \E p \in Procs :
        /\ Done(p, "FindZoneID") /\ OK200(p, 1) /\ call[p].name = "a"
        /\ Items(p, 1) = <<[id |-> Num(1), name |-> Str("ab")],
                           [id |-> Num(2), name |-> Str("ab")]>>
        /\ ret[p] = Result(0, Err("unable to match zone name"))

\* the server returns no zone at all and FindZoneID fails with "zone not found"
C22_EmptyReached ==
    \E p \in Procs :
        /\ Done(p, "FindZoneID") /\ OK200(p, 1) /\ zoneInfo(got[p][1].body).ok
        /\ Items(p, 1) = <<>>
        /\ ret[p] = Result(0, Err("zone not found for"))

\* C23: CreateDHCPInterface returns 1 with the "try again" error on the
\* duplicate-destination conflict and only then, returns 0 with a non-nil
\* error on every other failure, and returns a nil error only after a 200
\* response whose body decoded.
C23_ConflictIsOneWithError ==
    \A p \in Procs :
        Done(p, "CreateDHCPInterface") =>
            LET conflict == DuplicateDestination(p) /\ got[p][1].code # StatusOK
                decoded == OK200(p, 1) /\ interfaceCreate(got[p][1].body).ok
            IN /\ conflict => ret[p] = Result(1, Err("try again"))
               /\ ret[p].err = Err("try again") => conflict
               /\ (~conflict /\ ~decoded) => ret[p].val = 0 /\ ret[p].err # NoError
               /\ ret[p].err = NoError <=> decoded

\* C23 witness: a 409 names the submitted address and the call returns 1 with
\* "try again"
C23_Witness ==
    \E p \in Procs :
        /\ DuplicateDestination(p) /\ got[p][1].code = 409
        /\ ret[p] = Result(1, Err("try again"))

\* another failure, a 200 whose body does not decode, returns 0 with an error
C23_OtherFailureReached ==
    \E p \in Procs :
        /\ Done(p, "CreateDHCPInterface") /\ OK200(p, 1)
        /\ ~interfaceCreate(got[p][1].body).ok
        /\ ret[p] = Result(0, ErrDecode)

\* C24 as claimed: the conflict is returned only for a status other than 200
\* with the submitted address in the body, every other response with a status
\* other than 200 gives the status error with id 0, and a 200 is never a
\* conflict.
C24_OtherNon200IsStatusError ==
    \A p \in Procs :
        (Done(p, "CreateDHCPInterface") /\ got[p][1].kind = "resp") =>
            /\ ret[p].err = Err("try again") =>
                  got[p][1].code # StatusOK /\ DuplicateDestination(p)
            /\ (got[p][1].code # StatusOK /\ ~DuplicateDestination(p)) =>
                  ret[p] = Result(0, errorTidyDNS(got[p][1].code))
            /\ got[p][1].code = StatusOK => ret[p].err # Err("try again")

\* C24: the conflict is returned only for a status other than 200 with the
\* submitted address in the body; a response with another status whose body
\* was read and holds the message for another address, or no such message,
\* gives the status error with id 0; one whose body cannot be read gives the
\* read error with id 0; a 200 is never a conflict.
C24_OtherReadableNon200IsStatusError ==
    \A p \in Procs :
        (Done(p, "CreateDHCPInterface") /\ got[p][1].kind = "resp") =>
            /\ ret[p].err = Err("try again") =>
                  got[p][1].code # StatusOK /\ DuplicateDestination(p)
            /\ (got[p][1].code # StatusOK /\ ~DuplicateDestination(p)) =>
                  IF got[p][1].body.broken
                  THEN ret[p] = Result(0, Err("read"))
                  ELSE ret[p] = Result(0, errorTidyDNS(got[p][1].code))
            /\ got[p][1].code = StatusOK => ret[p].err # Err("try again")

\* C24 witness: a 409 holds the duplicate-key message for another address than
\* the submitted one, and the status error comes back with id 0
C24_Witness ==
    \E p \in Procs : \E i \in IPs :
        /\ Done(p, "CreateDHCPInterface") /\ got[p][1].kind = "resp"
        /\ got[p][1].code = 409 /\ ~got[p][1].body.broken
        /\ i # call[p].createInfo.InterfaceIP
        /\ Contains(got[p][1].body.text, DestinationExists(i))
        /\ ret[p] = Result(0, errorTidyDNS(409))

\* a 200 whose body quotes the message for the submitted address returns the
\* id of the body and no conflict
C24_OKReached ==
    \E p \in Procs :
        /\ DuplicateDestination(p) /\ got[p][1].code = StatusOK
        /\ ret[p] = Result(2, NoError)

\* C25: when Do gives no response for a request, the operation returns the
\* error of Do, which is not nil, and the zero value of its result; the missing
\* response is not among the bodies the call holds, and no further request is
\* issued.
C25_TransportErrorIsReturned ==
    \A p \in Procs :
        (pc[p] = "done" /\ got[p][Len(got[p])].kind = "err") =>
            /\ ret[p].err = got[p][Len(got[p])].err
            /\ ret[p].err # NoError
            /\ ZeroResult(p)
            /\ Len(got[p]) \notin open[p]
            /\ Len(sent[p]) = Len(got[p])

\* C25 witness: the transport fails for the POST of CreateDHCPInterface and the
\* call returns 0 with the transport's error
C25_Witness ==
    \E p \in Procs :
        /\ Done(p, "CreateDHCPInterface") /\ got[p] = <<TransportError>>
        /\ ret[p] = Result(0, Err("transport"))

\* the transport fails for the GET of CreateRecord, after a POST answered 200
C25_SecondRequestReached ==
    \E p \in Procs :
        /\ Done(p, "CreateRecord") /\ Len(got[p]) = 2 /\ got[p][2] = TransportError
        /\ ret[p] = Result(0, Err("transport"))

\* the rows of the service that p's POSTs created, and the id of the newest of
\* them: the record that the POST of p's present call created
RowsOf(p) == {i \in 1..Len(server.rows) : server.rows[i].by = p}
OwnRecord(p) == server.rows[CHOOSE i \in RowsOf(p) : \A j \in RowsOf(p) : j <= i].wire.id.n

\* the rows of the service, other than the one p's present call created, that
\* hold the type, name and destination of p's call
SameTriple(p) ==
    {i \in 1..Len(server.rows) :
        /\ server.rows[i].wire.id.n # OwnRecord(p)
        /\ server.rows[i].wire.type = Num(call[p].info.Type)
        /\ server.rows[i].wire.name = Str(call[p].info.Name)
        /\ server.rows[i].wire.destination = Str(call[p].info.Destination)}

\* C26 as claimed: a CreateRecord that returns without error returns the id of
\* the record that its own POST created, whatever other rows with the same
\* type, name and destination the merged list holds and whatever another
\* caller creates between the POST and the GET.
C26_ReturnsOwnRecord ==
    \A p \in Procs :
        (Done(p, "CreateRecord") /\ ret[p].err = NoError) => ret[p].val = OwnRecord(p)

\* the list holds a deleted row with the same triple before the row of the call,
\* and the id of the deleted row is returned
C26_DeletedRowReached ==
    \E p \in Procs :
        /\ Done(p, "CreateRecord") /\ ret[p].err = NoError
        /\ \E i \in SameTriple(p) : /\ server.rows[i].by = "none"
                                    /\ server.rows[i].wire.status = Null
                                    /\ ret[p].val = server.rows[i].wire.id.n

\* the other caller's POST of the same triple was answered between this call's
\* POST and GET, and the other caller's id is returned
C26_ConcurrentReached ==
    /\ Done("c1", "CreateRecord") /\ Done("c2", "CreateRecord")
    /\ call["c1"] = call["c2"]
    /\ ret["c1"].err = NoError /\ ret["c2"].err = NoError
    /\ server.rows[1].by = "c1" /\ server.rows[2].by = "c2"
    /\ ret["c1"].val = 2 /\ ret["c2"].val = 2

C27_CancelReached ==
    \E p \in Procs :
        /\ Done(p, "CreateRecord") /\ Len(got[p]) = 2
        /\ got[p][1].kind = "resp" /\ got[p][1].code = StatusOK
        /\ got[p][2] = Canceled /\ ret[p] = Result(0, ErrCanceled)
        /\ RowsOf(p) # {}

\* C28 as claimed: for a zone id and a record id, UpdateRecord and DeleteRecord
\* send their request to the URL that ReadRecord reads for the same two ids,
\* so the three address one resource.
C28_SameRecordResource ==
    \A p \in Procs :
        (call[p].op \in {"ReadRecord", "UpdateRecord", "DeleteRecord"} /\ Len(sent[p]) >= 1) =>
            sent[p][1].url = recordLookupUrl(call[p].zoneID, call[p].recordID)

\* DeleteRecord for record 1 of zone 7 has addressed /=/record/1/7, which is
\* where ReadRecord reads record 7 of zone 1
C28_SwappedReached ==
    \E p \in Procs :
        /\ Done(p, "DeleteRecord") /\ call[p].zoneID = 7 /\ call[p].recordID = 1
        /\ sent[p][1].url = recordLookupUrl(1, 7)
        /\ sent[p][1].url # recordLookupUrl(7, 1)

\* C29: every RecordInfo that ListRecords and FindRecord return has Status 0
\* (RecordStatusActive), whatever the status of its wire entry is, and as many
\* entries are returned by ListRecords as the wire holds; ReadRecord returns
\* the status of the wire.
C29_ListStatusIsAlwaysActive ==
    \A p \in Procs :
        /\ ((Done(p, "ListRecords") \/ Done(p, "FindRecord")) /\ ret[p].err = NoError) =>
              \A i \in 1..Len(ret[p].val.v) : ret[p].val.v[i].Status = RecordStatusActive
        /\ (Done(p, "ListRecords") /\ ret[p].err = NoError) =>
              Len(ret[p].val.v) = Len(Items(p, 1))
        /\ (Done(p, "ReadRecord") /\ ret[p].err = NoError) =>
              /\ Items(p, 1)[1].status.t \in {"num", "null"}
              /\ ret[p].val.v.Status = Items(p, 1)[1].status.n

\* C29 witness: ListRecords returns a row whose wire status is -1 after a live
\* one, and both have Status 0
C29_Witness ==
    \E p \in Procs :
        /\ Done(p, "ListRecords") /\ ret[p].err = NoError
        /\ Len(Items(p, 1)) = 2
        /\ Items(p, 1)[1].status = Str("0") /\ Items(p, 1)[2].status = Num(-1)
        /\ ret[p].val.v[1].Status = RecordStatusActive
        /\ ret[p].val.v[2].Status = RecordStatusActive

\* FindRecord returns a row that has no status on the wire with Status 0
C29_FindReached ==
    \E p \in Procs :
        /\ Done(p, "FindRecord") /\ ret[p].err = NoError
        /\ Len(Items(p, 1)) = 1 /\ Items(p, 1)[1].status = Null
        /\ Len(ret[p].val.v) = 1 /\ ret[p].val.v[1].Status = RecordStatusActive

\* ReadRecord returns the status -1 of the wire
C29_ReadReached ==
    \E p \in Procs :
        /\ Done(p, "ReadRecord") /\ ret[p].err = NoError
        /\ Items(p, 1)[1].status = Num(-1) /\ ret[p].val.v.Status = -1

\* C30: when an operation has returned, no response body it received is open:
\* every response the call got has been closed, on success and on every error
\* path, for CreateRecord the POST response as well as the GET response.
C30_NoBodyLeftOpen ==
    \A p \in Procs : pc[p] = "done" => open[p] = {}

\* C30 witness: CreateRecord received a POST response and a GET response whose
\* list holds no matching entry, returned "unable to find new record", and
\* holds no open body
C30_Witness ==
    \E p \in Procs :
        /\ Done(p, "CreateRecord") /\ Len(got[p]) = 2
        /\ got[p][1].kind = "resp" /\ got[p][2].kind = "resp"
        /\ ret[p] = Result(0, Err("unable to find new record"))
        /\ open[p] = {}

\* the GET of CreateRecord fails in the transport and the POST response, the
\* only one received, is closed at the return
C30_PostOnlyReached ==
    \E p \in Procs :
        /\ Done(p, "CreateRecord") /\ Len(got[p]) = 2
        /\ got[p][1].kind = "resp" /\ got[p][2].kind = "err"
        /\ open[p] = {}

\* a call with one request returns the status error of a 500 with the body closed
C30_StatusErrorReached ==
    \E p \in Procs :
        /\ Done(p, "GetSubnetIDs") /\ got[p][1].kind = "resp" /\ got[p][1].code = 500
        /\ ret[p].err = errorTidyDNS(500) /\ open[p] = {}
====
